---- MODULE Spec2Model ----
(***************************************************************************)
(* Model of the structural extraction engine of convert-to-tei.js:         *)
(* cleanText, normalizeText, stripLeadingNumber, extractTextWithFormatting *)
(* and parseDocument (anchor catalog, Strategy A scans, Strategy B         *)
(* navigation ranges, the questions grouping loop).                        *)
(*                                                                         *)
(* A JavaScript string is modelled as a sequence of tokens.  A token is a  *)
(* single character (" ", "1", ".", "(" ...) or an atomic run of letters   *)
(* that holds no digit, no white space and none of the punctuation the     *)
(* regular expressions of the source look at ("Question", "Answer",        *)
(* "What", "&nbsp;").  Str renders a token sequence as the string it       *)
(* stands for.                                                             *)
(***************************************************************************)
EXTENDS Integers, Sequences, FiniteSets, TLC

VARIABLES
    pc,            \* position of the run
    arg,           \* argument handed to a function that is followed on its own
    res,           \* results of the text function, in call order
    blocks,        \* questions pass: the blocks of parasBetween read so far
    currentNum,    \* questions pass: let currentNum
    prevNum,       \* questions pass: let prevNum
    pendingQueue,  \* questions pass: const pendingQueue
    currentText,   \* questions pass: let currentText
    sections,      \* const sections of parseDocument
    doc,           \* the document tree: its nodes in document order
    orderedAnchors, \* const orderedAnchors (anchorMap is built from it)
    mapped,        \* const mapped: the navigation entries with a recognized label
    idx,           \* let i of the loop over mapped
    walkStart,     \* a walk taken step by step: the element it starts after
    walkEnd,       \* its end node (endEl, endAnchor)
    walkNode,      \* let node of the walk
    walkText,      \* let text of collectBetween
    walkOut        \* const out of collectElementsBetween

vars == <<pc, arg, res, blocks, currentNum, prevNum, pendingQueue, currentText, sections,
          doc, orderedAnchors, mapped, idx, walkStart, walkEnd, walkNode, walkText, walkOut>>

-----------------------------------------------------------------------------
(* Bounds of the model *)

MaxTextLen == 5

MaxBlocks == 4

MaxIntroFragments == 4

MaxTextFragments == 3

\* fragments of a document of Spec
MaxFragments == 3

\* fragments of a document in which marker names may repeat
MaxCatalogFragments == 4

\* fragments of a document whose markers may leave a gap
MaxGapFragments == 2

\* fragments after the navigation block of a document whose containers vary
MaxRangeFragments == 3

\* fragments after the navigation block of a document with a notes range
MaxNotesFragments == 3

\* length of a text handed to cleanText
MaxCleanLen == 4

\* fragments after the navigation block of a document
MaxNavFragments == 4

\* fragments of a document whose walks are followed step by step
MaxWalkFragments == 2

\* the largest number in a marker name that the pattern of the model knows
MaxOrdinal == 3

-----------------------------------------------------------------------------
(* The ceilings of the Strategy A scans *)

PrefaceCeiling == 50

IntroductionCeiling == 300

DescriptionCeiling == 100

TextCeiling == 1000

QuestionsCeiling == 500

NotesCeiling == 1000

-----------------------------------------------------------------------------
(* Characters and strings *)

Digits == {"0", "1", "2", "3", "4", "5", "6", "7", "8", "9"}

\* JavaScript's \s, as far as the model's alphabet goes
WhiteSpace == {" ", "\n", "\t"}

\* [\.:\)\]] of stripLeadingNumber, numOnly and numAtStart
ClosePunct == {".", ":", ")", "]"}

\* [\(\[] of stripLeadingNumber
OpenPunct == {"(", "["}

\* [:—\-] of isQuestion and isAnswer (U+2014 is written "U+2014")
LabelPunct == {":", "U+2014", "-"}

\* the characters written by their code point: each is one character long
CodePoints == {"U+2014", "U+00E1", "U+00ED", "U+00FA", "U+00E9", "U+00F3"}

IsWs(c) == c \in WhiteSpace

IsDigit(c) == c \in Digits

\* \w of a regular expression: a letter, a digit or "_"
IsWordChar(c) == c \notin WhiteSpace \cup ClosePunct \cup OpenPunct \cup LabelPunct
                 \cup {"&nbsp;", "?", ",", "<", ">"}

TokLen(c) == IF c \in CodePoints THEN 1 ELSE Len(c)

RECURSIVE StrLen(_)
StrLen(t) == IF t = <<>> THEN 0 ELSE TokLen(t[1]) + StrLen(Tail(t))

RECURSIVE Str(_)
Str(t) == IF t = <<>> THEN "" ELSE t[1] \o Str(Tail(t))

\* first index >= i of t that holds no white space (Len(t) + 1 when there is none)
RECURSIVE SkipWs(_, _)
SkipWs(t, i) == IF i <= Len(t) /\ IsWs(t[i]) THEN SkipWs(t, i + 1) ELSE i

\* first index >= i of t that holds no digit
RECURSIVE SkipDigits(_, _)
SkipDigits(t, i) == IF i <= Len(t) /\ IsDigit(t[i]) THEN SkipDigits(t, i + 1) ELSE i

\* last index <= i of t that holds no white space (0 when there is none)
RECURSIVE SkipWsBack(_, _)
SkipWsBack(t, i) == IF i >= 1 /\ IsWs(t[i]) THEN SkipWsBack(t, i - 1) ELSE i

\* String.prototype.trim
Trim(t) == SubSeq(t, SkipWs(t, 1), SkipWsBack(t, Len(t)))

\* .replace(/\s+/g, ' ')
RECURSIVE CollapseWs(_)
CollapseWs(t) ==
    IF t = <<>> THEN <<>>
    ELSE IF IsWs(t[1]) THEN <<" ">> \o CollapseWs(SubSeq(t, SkipWs(t, 1), Len(t)))
    ELSE <<t[1]>> \o CollapseWs(Tail(t))

\* .replace(/&nbsp;/g, ' ')
ReplaceNbsp(t) == [i \in 1..Len(t) |-> IF t[i] = "&nbsp;" THEN " " ELSE t[i]]

cleanText(text) == IF text = <<>> THEN <<>> ELSE Trim(ReplaceNbsp(CollapseWs(text)))

\* the entity table of normalizeText; its other replacements map a character to itself
normalizeText(text) ==
    [i \in 1..Len(text) |->
        CASE text[i] = "&aacute;" -> "U+00E1"
          [] text[i] = "&iacute;" -> "U+00ED"
          [] text[i] = "&uacute;" -> "U+00FA"
          [] text[i] = "&eacute;" -> "U+00E9"
          [] text[i] = "&oacute;" -> "U+00F3"
          [] OTHER -> text[i]]

\* End of the match of /^\s*(?:[\(\[])?\s*\d{1,3}(?:\s*[\.:\)\]])?(?:\s+|$)/ in t:
\* the index of the last matched character, or -1 when the expression does not match.
\* Each greedy quantifier takes all it can; the only place where giving back helps
\* is the optional punctuation group, which is retried empty.
LabelMatchEnd(t) ==
    LET n  == Len(t)
        i0 == SkipWs(t, 1)
        i1 == IF i0 <= n /\ t[i0] \in OpenPunct THEN i0 + 1 ELSE i0
        i2 == SkipWs(t, i1)
        i3 == SkipDigits(t, i2)
        j  == SkipWs(t, i3)
        k  == j + 1
        tail(from) == IF from > n THEN n
                      ELSE IF IsWs(t[from]) THEN SkipWs(t, from) - 1
                      ELSE -1
    IN  IF i3 - i2 < 1 \/ i3 - i2 > 3 THEN -1
        ELSE IF j <= n /\ t[j] \in ClosePunct /\ tail(k) # -1 THEN tail(k)
        ELSE tail(i3)

\* a plausible slip: the closing (?:\s+|$) left out of the expression
LabelMatchEndNoTail(t) ==
    LET n  == Len(t)
        i0 == SkipWs(t, 1)
        i1 == IF i0 <= n /\ t[i0] \in OpenPunct THEN i0 + 1 ELSE i0
        i2 == SkipWs(t, i1)
        i3 == SkipDigits(t, i2)
        j  == SkipWs(t, i3)
    IN  IF i3 = i2 THEN -1
        ELSE IF i3 - i2 > 3 THEN i2 + 2
        ELSE IF j <= n /\ t[j] \in ClosePunct THEN j
        ELSE i3 - 1

stripLeadingNumberNoTail(text) ==
    IF text = <<>> \/ LabelMatchEndNoTail(text) = -1 THEN text
    ELSE SubSeq(text, LabelMatchEndNoTail(text) + 1, Len(text))

stripLeadingNumber(text) ==
    IF text = <<>> THEN <<>>
    ELSE IF LabelMatchEnd(text) = -1 THEN text
    ELSE SubSeq(text, LabelMatchEnd(text) + 1, Len(text))

-----------------------------------------------------------------------------
(* Text functions applied to arbitrary strings *)

TextAlphabet == {" ", "1", ".", "(", "a"}

Texts == UNION {[1..n -> TextAlphabet] : n \in 0..MaxTextLen}

NoSections ==
    [preface |-> <<>>, introduction |-> <<>>, description |-> <<>>, text |-> <<>>,
     questions |-> <<>>, supplementary |-> <<>>, synopsis |-> <<>>, notes |-> <<>>,
     glossary |-> <<>>, keyPassages |-> <<>>]

Null == "null"

QaIdle ==
    /\ blocks = <<>>
    /\ currentNum = Null
    /\ prevNum = 0
    /\ pendingQueue = <<>>
    /\ currentText = <<>>

qaVars == <<blocks, currentNum, prevNum, pendingQueue, currentText>>

walkVars == <<walkStart, walkEnd, walkNode, walkText, walkOut>>

\* no walk is being followed step by step
WalkIdle ==
    /\ walkStart = 0
    /\ walkEnd = 0
    /\ walkNode = 0
    /\ walkText = <<>>
    /\ walkOut = <<>>

\* no document is being parsed
DocIdle ==
    /\ doc = <<>>
    /\ orderedAnchors = <<>>
    /\ mapped = <<>>
    /\ idx = 0
    /\ WalkIdle

docVars == <<doc, orderedAnchors, mapped, idx, walkVars>>

textVars == <<arg, res>>

InitStrip ==
    /\ pc = "strip"
    /\ arg \in Texts
    /\ res = <<>>
    /\ QaIdle
    /\ DocIdle
    /\ sections = NoSections

StripOnce ==
    /\ pc = "strip"
    /\ res' = <<stripLeadingNumber(arg)>>
    /\ pc' = "stripped"
    /\ UNCHANGED <<arg, qaVars, sections, docVars>>

StripAgain ==
    /\ pc = "stripped"
    /\ res' = Append(res, stripLeadingNumber(res[1]))
    /\ pc' = "strippedTwice"
    /\ UNCHANGED <<arg, qaVars, sections, docVars>>

NextStrip == StripOnce \/ StripAgain

SpecStrip == InitStrip /\ [][NextStrip]_vars

-----------------------------------------------------------------------------
(* The questions grouping loop of parseDocument *)

DigitValue(c) == CHOOSE k \in 0..9 : ToString(k) = c

\* parseInt(digits, 10) of a run of digits
RECURSIVE DigitsValue(_)
DigitsValue(ds) ==
    IF ds = <<>> THEN 0
    ELSE 10 * DigitsValue(SubSeq(ds, 1, Len(ds) - 1)) + DigitValue(ds[Len(ds)])

\* String(n): the ordinal of a questions item
String(n) == ToString(n)

\* parseInt(currentNum, 10): currentNum is String(n) of a number of at most three
\* digits, or of one more than a previous ordinal
parseInt(s) == CHOOSE k \in 0..(999 + MaxBlocks) : ToString(k) = s

\* rawText: (p.textContent || '').trim()
rawTextOf(content) == Trim(content)

\* cleanText(extractTextWithFormatting(p)) of a block that holds one text node
blockText(content) == cleanText(normalizeText(content))

\* A block of parasBetween as the loop reads it: raw is rawText, text is
\* cleanText(extractTextWithFormatting(p)).  PlainBlock is a block that holds one
\* text node with the given content.
PlainBlock(content) == [raw |-> rawTextOf(content), text |-> blockText(content)]

\* the digits captured by (\d{1,3}) at the start of rawText
LeadingDigits(raw) ==
    LET i == SkipWs(raw, 1)
        j == SkipDigits(raw, i)
    IN  SubSeq(raw, i, IF j - i > 3 THEN i + 2 ELSE j - 1)

\* rawText.match(/^\s*(\d{1,3})(?:\s*[\.:\)\]])?\s*$/)
numOnly(raw) ==
    LET i == SkipWs(raw, 1)
        j == SkipDigits(raw, i)
        k == SkipWs(raw, j)
    IN  /\ j - i >= 1
        /\ j - i <= 3
        /\ \/ k > Len(raw)
           \/ raw[k] \in ClosePunct /\ SkipWs(raw, k + 1) > Len(raw)

\* rawText.match(/^\s*(\d{1,3})(?:\s*[\.:\)\]])?/)
numAtStart(raw) == LeadingDigits(raw) # <<>>

\* /\b<word>\s*[:—\-]/i.test(rawText), for the word Question or Answer
HasLabel(raw, word) ==
    \E i \in 1..Len(raw) :
        /\ raw[i] = word
        /\ i = 1 \/ ~IsWordChar(raw[i - 1])
        /\ SkipWs(raw, i + 1) <= Len(raw)
        /\ raw[SkipWs(raw, i + 1)] \in LabelPunct

isQuestion(raw) == HasLabel(raw, "Question")

isAnswer(raw) == HasLabel(raw, "Answer")

\* while (pendingQueue.length && pendingQueue[0] === n) pendingQueue.shift()
RECURSIVE DropLeading(_, _)
DropLeading(q, n) == IF q # <<>> /\ Head(q) = n THEN DropLeading(Tail(q), n) ELSE q

\* The state of one questions pass: currentNum, prevNum, pendingQueue, currentText
\* and sections.questions (items).
QaState(cn, pn, pq, ct, items) ==
    [currentNum |-> cn, prevNum |-> pn, pendingQueue |-> pq, currentText |-> ct,
     items |-> items]

\* const flush = () => { ... }
flush(q) ==
    LET emit == q.currentNum # Null /\ Trim(q.currentText) # <<>>
    IN  [q EXCEPT
            !.items = IF emit
                      THEN Append(@, [n |-> q.currentNum, text |-> cleanText(q.currentText)])
                      ELSE @,
            !.prevNum = IF emit /\ parseInt(q.currentNum) # 0
                        THEN parseInt(q.currentNum) ELSE @,
            !.currentNum = Null,
            !.currentText = <<>>]

\* the branch of the loop body that a block takes
Branch(q, b) ==
    LET raw == b.raw
    IN  IF numOnly(raw) THEN "number"
        ELSE IF isQuestion(raw) THEN "question"
        ELSE IF isAnswer(raw) /\ q.currentNum # Null THEN "answer"
        ELSE IF q.currentNum = Null /\ ~isAnswer(raw)
                /\ (numAtStart(raw) \/ q.pendingQueue # <<>>)
             THEN (IF StrLen(stripLeadingNumber(b.text)) > 2
                   THEN "implicit" ELSE "noise")
        ELSE IF q.currentNum # Null THEN "continuation"
        ELSE "ignored"

\* a plausible slip: the queue is not cleared of the number the item has taken
questionStartKeepsDuplicates(q, b) ==
    LET raw == b.raw
        f   == flush(q)
        n   == IF numAtStart(raw) THEN DigitsValue(LeadingDigits(raw))
               ELSE IF f.pendingQueue # <<>> THEN Head(f.pendingQueue)
               ELSE f.prevNum + 1
        pq  == IF ~numAtStart(raw) /\ f.pendingQueue # <<>>
               THEN Tail(f.pendingQueue) ELSE f.pendingQueue
    IN  [f EXCEPT !.currentNum = String(n),
                  !.pendingQueue = pq,
                  !.currentText = stripLeadingNumber(b.text)]

\* a plausible slip: the pending queue is not consulted when a Question block opens
questionStartIgnoresQueue(q, b) ==
    LET raw == b.raw
        f   == flush(q)
        n   == IF numAtStart(raw) THEN DigitsValue(LeadingDigits(raw))
               ELSE f.prevNum + 1
    IN  [f EXCEPT !.currentNum = String(n),
                  !.pendingQueue = DropLeading(f.pendingQueue, n),
                  !.currentText = stripLeadingNumber(b.text)]

\* if (isQuestion) { ... }
questionStart(q, b) ==
    LET raw == b.raw
        f   == flush(q)
        n   == IF numAtStart(raw) THEN DigitsValue(LeadingDigits(raw))
               ELSE IF f.pendingQueue # <<>> THEN Head(f.pendingQueue)
               ELSE f.prevNum + 1
        pq  == IF ~numAtStart(raw) /\ f.pendingQueue # <<>>
               THEN Tail(f.pendingQueue) ELSE f.pendingQueue
    IN  [f EXCEPT !.currentNum = String(n),
                  !.pendingQueue = DropLeading(pq, n),
                  !.currentText = stripLeadingNumber(b.text)]

\* a plausible slip: the open item is flushed before the answer is taken
answerAppendAfterFlush(q, b) ==
    [flush(q) EXCEPT !.currentText = <<" ">> \o stripLeadingNumber(b.text)]

\* a plausible slip: the separating space left out
answerAppendNoSpace(q, b) ==
    [q EXCEPT !.currentText = @ \o stripLeadingNumber(b.text)]

\* if (isAnswer && currentNum !== null) { ... }
answerAppend(q, b) ==
    [q EXCEPT !.currentText = @ \o <<" ">> \o stripLeadingNumber(b.text)]

\* if (currentNum === null && !isAnswer) { ... if (impliedNum !== null) { ... } }
implicitStart(q, b) ==
    LET raw == b.raw
        n   == IF numAtStart(raw) THEN DigitsValue(LeadingDigits(raw))
               ELSE Head(q.pendingQueue)
        pq  == IF numAtStart(raw) THEN q.pendingQueue ELSE Tail(q.pendingQueue)
        f   == flush([q EXCEPT !.pendingQueue = pq])
        t   == stripLeadingNumber(b.text)
    IN  IF t # <<>> /\ StrLen(t) > 2
        THEN [f EXCEPT !.currentNum = String(n),
                       !.pendingQueue = DropLeading(pq, n),
                       !.currentText = t]
        ELSE [f EXCEPT !.currentNum = Null,
                       !.pendingQueue = DropLeading(pq, n),
                       !.currentText = <<>>]

\* a plausible slip: an inline number starts a new item although one is open
continuationRestartsOnNumber(q, b) ==
    LET t == stripLeadingNumber(b.text)
    IN  IF numAtStart(b.raw)
        THEN [flush(q) EXCEPT !.currentNum = String(DigitsValue(LeadingDigits(b.raw))),
                              !.currentText = t]
        ELSE IF t # <<>> THEN [q EXCEPT !.currentText = @ \o <<" ">> \o t] ELSE q

\* if (currentNum !== null) { ... if (t) currentText += ' ' + t; }
continuation(q, b) ==
    LET t == stripLeadingNumber(b.text)
    IN  IF t # <<>> THEN [q EXCEPT !.currentText = @ \o <<" ">> \o t] ELSE q

\* the body of for (const p of parasBetween), for one block
blockStep(q, b) ==
    LET br == Branch(q, b)
    IN  CASE br = "number" ->
                [q EXCEPT !.pendingQueue =
                    Append(@, DigitsValue(LeadingDigits(b.raw)))]
          [] br = "question" -> questionStart(q, b)
          [] br = "answer" -> answerAppend(q, b)
          [] br \in {"implicit", "noise"} -> implicitStart(q, b)
          [] br = "continuation" -> continuation(q, b)
          [] OTHER -> q

\* a plausible slip: the test against the last emitted item left out
RECURSIVE drainAll(_, _)
drainAll(items, pq) ==
    IF pq = <<>> THEN items
    ELSE drainAll(Append(items, [n |-> String(Head(pq)), text |-> <<>>]), Tail(pq))

\* while (pendingQueue.length) { ... }: the items after the queue is drained
RECURSIVE drain(_, _)
drain(items, pq) ==
    IF pq = <<>> THEN items
    ELSE drain(IF items = <<>> \/ items[Len(items)].n # String(Head(pq))
               THEN Append(items, [n |-> String(Head(pq)), text |-> <<>>])
               ELSE items,
               Tail(pq))

\* flush(); while (pendingQueue.length) { ... prevNum = n; }
\* a plausible slip: the pending queue is drained before the open item is flushed
endOfRangeDrainFirst(q) ==
    LET d == [q EXCEPT !.items = drain(q.items, q.pendingQueue),
                       !.prevNum = IF q.pendingQueue = <<>> THEN @
                                   ELSE q.pendingQueue[Len(q.pendingQueue)],
                       !.pendingQueue = <<>>]
    IN  flush(d)

endOfRange(q) ==
    LET f == flush(q)
    IN  [f EXCEPT !.items = drain(f.items, f.pendingQueue),
                  !.prevNum = IF f.pendingQueue = <<>> THEN @
                              ELSE f.pendingQueue[Len(f.pendingQueue)],
                  !.pendingQueue = <<>>]

\* The blocks a questions range is made of: the text content of a p element.
QuestionBlocks ==
    { <<"3", ".">>,
      <<"4", ".">>,
      <<"7">>,
      <<"0">>,
      <<"Question", ":", " ", "What", " ", "is", " ", "fasting", "?">>,
      <<"Answer", ":", " ", "Abstention", " ", "from", " ", "food", ".">>,
      <<"Question", ":", " ", "A">>,
      <<"Answer", ":", " ", "B">>,
      <<"1", ".", " ", "Question", ":", " ", "A">>,
      <<"2", ".", " ", "Some", " ", "text">>,
      <<"More", " ", "text">>,
      <<"C">> }

\* In blocks, the place where one navigation range ends and the next questions
\* range starts.
RangeBreak == <<"#range">>

Qa == QaState(currentNum, prevNum, pendingQueue, currentText, sections.questions)

SetQa(q) ==
    /\ currentNum' = q.currentNum
    /\ prevNum' = q.prevNum
    /\ pendingQueue' = q.pendingQueue
    /\ currentText' = q.currentText
    /\ sections' = [sections EXCEPT !.questions = q.items]

InitQa ==
    /\ pc = "blocks"
    /\ arg = <<>>
    /\ res = <<>>
    /\ QaIdle
    /\ DocIdle
    /\ sections = NoSections

\* one iteration of the loop: the block content is read and the pass moves to q
Consume(content, q) ==
    /\ blocks' = Append(blocks, content)
    /\ SetQa(q)
    /\ UNCHANGED <<pc, arg, res, docVars>>

\* if (numOnly) { pendingQueue.push(...); continue; }
QaBareNumber ==
    /\ pc = "blocks"
    /\ Len(blocks) < MaxBlocks
    /\ \E content \in QuestionBlocks :
        /\ Branch(Qa, PlainBlock(content)) = "number"
        /\ Consume(content, blockStep(Qa, PlainBlock(content)))

QaQuestion ==
    /\ pc = "blocks"
    /\ Len(blocks) < MaxBlocks
    /\ \E content \in QuestionBlocks :
        /\ Branch(Qa, PlainBlock(content)) = "question"
        /\ Consume(content, questionStart(Qa, PlainBlock(content)))

QaAnswer ==
    /\ pc = "blocks"
    /\ Len(blocks) < MaxBlocks
    /\ \E content \in QuestionBlocks :
        /\ Branch(Qa, PlainBlock(content)) = "answer"
        /\ Consume(content, answerAppend(Qa, PlainBlock(content)))

\* an implicit start whose stripped text is longer than 2
QaImplicit ==
    /\ pc = "blocks"
    /\ Len(blocks) < MaxBlocks
    /\ \E content \in QuestionBlocks :
        /\ Branch(Qa, PlainBlock(content)) = "implicit"
        /\ Consume(content, implicitStart(Qa, PlainBlock(content)))

\* an implicit start whose stripped text is not: the item is reset
QaNoise ==
    /\ pc = "blocks"
    /\ Len(blocks) < MaxBlocks
    /\ \E content \in QuestionBlocks :
        /\ Branch(Qa, PlainBlock(content)) = "noise"
        /\ Consume(content, implicitStart(Qa, PlainBlock(content)))

QaContinuation ==
    /\ pc = "blocks"
    /\ Len(blocks) < MaxBlocks
    /\ \E content \in QuestionBlocks :
        /\ Branch(Qa, PlainBlock(content)) = "continuation"
        /\ Consume(content, continuation(Qa, PlainBlock(content)))

\* no branch of the body applies: the block is passed over
QaIgnored ==
    /\ pc = "blocks"
    /\ Len(blocks) < MaxBlocks
    /\ \E content \in QuestionBlocks :
        /\ Branch(Qa, PlainBlock(content)) = "ignored"
        /\ Consume(content, Qa)

\* the end of parasBetween
QaEndOfRange ==
    /\ pc = "blocks"
    /\ SetQa(endOfRange(Qa))
    /\ pc' = "rangeEnd"
    /\ UNCHANGED <<blocks, arg, res, docVars>>

\* the next entry of mapped is a questions entry too: its pass starts afresh
QaNextRange ==
    /\ pc = "rangeEnd"
    /\ Len(blocks) < MaxBlocks
    /\ blocks' = Append(blocks, RangeBreak)
    /\ currentNum' = Null
    /\ prevNum' = 0
    /\ pendingQueue' = <<>>
    /\ currentText' = <<>>
    /\ pc' = "blocks"
    /\ UNCHANGED <<sections, arg, res, docVars>>

NextQa ==
    \/ QaBareNumber
    \/ QaQuestion
    \/ QaAnswer
    \/ QaImplicit
    \/ QaNoise
    \/ QaContinuation
    \/ QaIgnored
    \/ QaEndOfRange
    \/ QaNextRange

SpecQa == InitQa /\ [][NextQa]_vars

-----------------------------------------------------------------------------
(* The document tree *)

\* A node of the tree.  doc lists the nodes in document order (pre-order); depth is
\* the number of ancestors below the document.  An absent attribute is "" (or <<>>
\* for href, which is kept as characters); text is the data of a text node.
Node(kind, tag, name, id, cls, href, text, depth) ==
    [kind |-> kind, tag |-> tag, name |-> name, id |-> id, cls |-> cls,
     href |-> href, text |-> text, depth |-> depth]

Element(tag, depth) == Node("elem", tag, "", "", "", <<>>, <<>>, depth)

TextNode(text, depth) == Node("text", "", "", "", "", <<>>, text, depth)

\* null
NoNode == 0

\* the last node of the subtree of node
SubtreeEnd(node) ==
    LET after == {j \in (node + 1)..Len(doc) : doc[j].depth <= doc[node].depth}
    IN  IF after = {} THEN Len(doc) ELSE (CHOOSE j \in after : \A k \in after : j <= k) - 1

Descendants(node) == (node + 1)..SubtreeEnd(node)

\* node.firstChild
firstChild(node) ==
    IF node < Len(doc) /\ doc[node + 1].depth = doc[node].depth + 1 THEN node + 1 ELSE NoNode

\* node.nextSibling
nextSibling(node) ==
    LET j == SubtreeEnd(node) + 1
    IN  IF j <= Len(doc) /\ doc[j].depth = doc[node].depth THEN j ELSE NoNode

\* node.parentNode (the parent of the root element is the document, which has
\* neither sibling nor parent: NoNode stands for it)
parentNode(node) ==
    LET above == {j \in 1..(node - 1) : doc[j].depth < doc[node].depth}
    IN  IF above = {} THEN NoNode ELSE CHOOSE j \in above : \A k \in above : k <= j

\* the while loop of nextNode: the next sibling of the nearest ancestor-or-self that has one
RECURSIVE ClimbToSibling(_)
ClimbToSibling(node) ==
    IF node = NoNode THEN NoNode
    ELSE IF nextSibling(node) # NoNode THEN nextSibling(node)
    ELSE ClimbToSibling(parentNode(node))

\* a plausible slip: with no sibling left, the parent itself is returned
nextNodeBackToParent(node) ==
    IF node = NoNode THEN NoNode
    ELSE IF firstChild(node) # NoNode THEN firstChild(node)
    ELSE IF nextSibling(node) # NoNode THEN nextSibling(node)
    ELSE parentNode(node)

\* function nextNode(node)
nextNode(node) ==
    IF node = NoNode THEN NoNode
    ELSE IF firstChild(node) # NoNode THEN firstChild(node)
    ELSE ClimbToSibling(node)

\* node.textContent
RECURSIVE TextFrom(_, _)
TextFrom(j, last) ==
    IF j > last THEN <<>>
    ELSE (IF doc[j].kind = "text" THEN doc[j].text ELSE <<>>) \o TextFrom(j + 1, last)

textContent(node) == TextFrom(node, SubtreeEnd(node))

\* href.startsWith('http')
IsHttp(href) == href # <<>> /\ href[1] = "http"

\* function extractTextWithFormatting(node): the children of node, from child c on
RECURSIVE ExtractFromChild(_)
ExtractFromChild(c) ==
    IF c = NoNode THEN <<>>
    ELSE LET inner == ExtractFromChild(firstChild(c))
             tag   == doc[c].tag
             piece ==
                 IF doc[c].kind = "text" THEN normalizeText(doc[c].text)
                 ELSE IF tag \in {"i", "em"}
                      THEN <<"<hi rend=\"italic\">">> \o inner \o <<"</hi>">>
                 ELSE IF tag \in {"b", "strong"}
                      THEN <<"<hi rend=\"bold\">">> \o inner \o <<"</hi>">>
                 ELSE IF tag = "u"
                      THEN <<"<hi rend=\"underline\">">> \o inner \o <<"</hi>">>
                 ELSE IF tag = "sup"
                      THEN <<"<hi rend=\"superscript\">">> \o inner \o <<"</hi>">>
                 ELSE IF tag = "sub"
                      THEN <<"<hi rend=\"subscript\">">> \o inner \o <<"</hi>">>
                 ELSE IF tag = "a" /\ IsHttp(doc[c].href)
                      THEN <<"<ref target=\"", Str(doc[c].href), "\">">> \o inner \o <<"</ref>">>
                 ELSE IF tag = "br" THEN <<"\n">>
                 ELSE inner
         IN  piece \o ExtractFromChild(nextSibling(c))

extractTextWithFormatting(node) ==
    IF node = NoNode THEN <<>> ELSE ExtractFromChild(firstChild(node))

-----------------------------------------------------------------------------
(* parseDocument: the anchor catalog and Strategy A *)

\* the names /^(pref\d+|intro\d+[a-c]?|description\d+|par\d+|q\d+|note\d+)$/i accepts,
\* with the numbers the model uses; the expression ignores case
AnchorNames ==
    {f \o ToString(i) : f \in {"pref", "intro", "description", "par", "q", "note"},
                        i \in 0..MaxOrdinal}
    \cup {"intro" \o ToString(i) \o suf : i \in 0..MaxOrdinal, suf \in {"a", "b", "c"}}
    \cup {"PAR1", "Pref1", "INTRO1"}

\* anchorPattern.test(name)
anchorPattern(name) == name \in AnchorNames

\* el.getAttribute('name') || el.getAttribute('id') || ''
nameOrId(node) == IF doc[node].name # "" THEN doc[node].name ELSE doc[node].id

\* document.querySelectorAll('a[name], *[id], *[name]'), in document order
allAnchorEls ==
    SelectSeq([j \in 1..Len(doc) |-> j],
              LAMBDA j : doc[j].kind = "elem" /\ (doc[j].name # "" \/ doc[j].id # ""))

\* const anchors: the elements whose name matches the pattern
anchors ==
    LET named == SelectSeq(allAnchorEls, LAMBDA j : anchorPattern(nameOrId(j)))
    IN  [k \in 1..Len(named) |-> [name |-> nameOrId(named[k]), el |-> named[k]]]

\* a plausible slip: the filter on names already seen left out
KeepEvery(as, seen) == as

\* anchors.filter(a => { if (seen.has(a.name)) return false; seen.add(a.name); return true; })
RECURSIVE KeepFirst(_, _)
KeepFirst(as, seen) ==
    IF as = <<>> THEN <<>>
    ELSE IF Head(as).name \in seen THEN KeepFirst(Tail(as), seen)
    ELSE <<Head(as)>> \o KeepFirst(Tail(as), seen \cup {Head(as).name})

\* anchorMap.has(name)
anchorHas(name) == \E k \in 1..Len(orderedAnchors) : orderedAnchors[k].name = name

\* anchorMap.get(name) || null
anchorGet(name) ==
    IF anchorHas(name)
    THEN orderedAnchors[CHOOSE k \in 1..Len(orderedAnchors) : orderedAnchors[k].name = name].el
    ELSE NoNode

\* the loop of collectBetween, from node on, with the text collected so far
RECURSIVE CollectFrom(_, _, _)
CollectFrom(node, endEl, text) ==
    IF node = NoNode \/ node = endEl THEN text
    ELSE IF doc[node].kind = "elem"
    THEN IF nameOrId(node) # "" /\ anchorPattern(nameOrId(node)) THEN text
         ELSE CollectFrom(IF nextSibling(node) # NoNode THEN nextSibling(node)
                          ELSE nextNode(node),
                          endEl, text \o extractTextWithFormatting(node))
    ELSE CollectFrom(nextNode(node), endEl, text \o normalizeText(doc[node].text))

\* function collectBetween(startEl, endEl)
collectBetween(startEl, endEl) == cleanText(CollectFrom(nextNode(startEl), endEl, <<>>))

\* a plausible slip: the first preface marker left out of the test
legacyHasContentWithoutPreface == anchorHas("par1") \/ anchorHas("intro1")

\* a plausible slip: any marker of the catalog taken as a sign of the legacy layout
legacyHasContentAnyMarker == orderedAnchors # <<>>

\* const legacyHasContent
legacyHasContent == anchorHas("par1") \/ anchorHas("intro1") \/ anchorHas("pref1")

\* for (let i = 1; i <= ceiling; i++) { ... if (!el) break; ... }: the items pushed
\* from ordinal i on; strip is set for the families whose text loses its leading number
RECURSIVE scanFamily(_, _, _, _)
scanFamily(family, i, ceiling, strip) ==
    IF i > ceiling \/ anchorGet(family \o ToString(i)) = NoNode THEN <<>>
    ELSE LET el     == anchorGet(family \o ToString(i))
             nextEl == anchorGet(family \o ToString(i + 1))
             found  == collectBetween(el, nextEl)
             text   == IF strip /\ found # <<>> THEN stripLeadingNumber(found) ELSE found
         IN  (IF text # <<>> THEN <<[n |-> i, text |-> text]>> ELSE <<>>)
             \o scanFamily(family, i + 1, ceiling, strip)

\* the name of the marker that ends the item intro<i><suf>
introNextName(i, suf) ==
    IF suf = "" THEN (IF anchorHas("intro" \o ToString(i) \o "b")
                      THEN "intro" \o ToString(i) \o "b"
                      ELSE "intro" \o ToString(i + 1))
    ELSE IF suf = "b" THEN (IF anchorHas("intro" \o ToString(i) \o "c")
                            THEN "intro" \o ToString(i) \o "c"
                            ELSE "intro" \o ToString(i + 1))
    ELSE "intro" \o ToString(i + 1)

\* the body of for (const suf of ['', 'b', 'c']), for one suffix
introItem(i, suf) ==
    LET el   == anchorGet("intro" \o ToString(i) \o suf)
        text == collectBetween(el, anchorGet(introNextName(i, suf)))
    IN  IF el # NoNode /\ text # <<>>
        THEN <<[n |-> ToString(i) \o suf, text |-> text]>>
        ELSE <<>>

\* for (let i = from; i <= to; i++) for (const suf of ['', 'b', 'c']) { ... }: the
\* items pushed, in the order of the loop (the range is halved to keep the
\* evaluation shallow; the loop has no break)
RECURSIVE scanIntroduction(_, _)
scanIntroduction(from, to) ==
    IF from > to THEN <<>>
    ELSE IF from = to
    THEN introItem(from, "") \o introItem(from, "b") \o introItem(from, "c")
    ELSE scanIntroduction(from, (from + to) \div 2)
         \o scanIntroduction((from + to) \div 2 + 1, to)

\* document.querySelector('nav.gc')
navElement ==
    LET navs == {j \in 1..Len(doc) :
                    doc[j].kind = "elem" /\ doc[j].tag = "nav" /\ doc[j].cls = "gc"}
    IN  IF navs = {} THEN NoNode ELSE CHOOSE j \in navs : \A k \in navs : j <= k

\* a plausible slip: the name is taken off each element as the catalog reads it
BuildCatalogTakingNames ==
    /\ pc = "start"
    /\ orderedAnchors' = KeepFirst(anchors, {})
    /\ doc' = [j \in 1..Len(doc) |-> [doc[j] EXCEPT !.name = ""]]
    /\ pc' = "catalog"
    /\ UNCHANGED <<mapped, idx, sections, qaVars, textVars, walkVars>>

\* const allAnchorEls ... const anchorMap
BuildCatalog ==
    /\ pc = "start"
    /\ orderedAnchors' = KeepFirst(anchors, {})
    /\ pc' = "catalog"
    /\ UNCHANGED <<doc, mapped, idx, sections, qaVars, textVars, walkVars>>

\* one family scan of Strategy A: the items go to section, the run moves on to next
Scan(section, items, next) ==
    /\ sections' = [sections EXCEPT ![section] = @ \o items]
    /\ pc' = next
    /\ UNCHANGED <<doc, orderedAnchors, mapped, idx, qaVars, textVars, walkVars>>

ScanPreface ==
    /\ pc = "catalog"
    /\ legacyHasContent
    /\ Scan("preface", scanFamily("pref", 1, PrefaceCeiling, FALSE), "scanIntroduction")

ScanIntroduction ==
    /\ pc = "scanIntroduction"
    /\ Scan("introduction", scanIntroduction(1, IntroductionCeiling), "scanDescription")

ScanDescription ==
    /\ pc = "scanDescription"
    /\ Scan("description", scanFamily("description", 1, DescriptionCeiling, FALSE), "scanText")

ScanText ==
    /\ pc = "scanText"
    /\ Scan("text", scanFamily("par", 1, TextCeiling, TRUE), "scanQuestions")

ScanQuestions ==
    /\ pc = "scanQuestions"
    /\ Scan("questions", scanFamily("q", 1, QuestionsCeiling, TRUE), "scanNotes")

\* the notes scan, and return sections
ScanNotes ==
    /\ pc = "scanNotes"
    /\ Scan("notes", scanFamily("note", 1, NotesCeiling, FALSE), "returnedLegacy")

\* if (!nav) return sections;
ReturnNothing ==
    /\ pc = "catalog"
    /\ ~legacyHasContent
    /\ navElement = NoNode
    /\ pc' = "returnedEmpty"
    /\ UNCHANGED <<doc, orderedAnchors, mapped, idx, sections, qaVars, textVars, walkVars>>

-----------------------------------------------------------------------------
(* parseDocument: Strategy B, the navigation-based segmentation *)

\* the indices from..to in document order
Range(from, to) == [k \in 1..(IF to >= from THEN to - from + 1 ELSE 0) |-> from + k - 1]

\* The words whose lower case differs from them.  A label or a paragraph is a
\* sequence of words and separators; no word of the model is a proper prefix of
\* another, so that startsWith on words is startsWith on characters.
LowerCase ==
    {<<"Preface", "preface">>, <<"Introduction", "introduction">>, <<"A", "a">>,
     <<"Description", "description">>, <<"The", "the">>, <<"Kit", "kit">>,
     <<"b-i-Aqdas", "b-i-aqdas">>, <<"Kitab-i-Aqdas", "kitab-i-aqdas">>,
     <<"Some", "some">>, <<"Supplementary", "supplementary">>,
     <<"Questions", "questions">>, <<"Answers", "answers">>, <<"Synopsis", "synopsis">>,
     <<"Notes", "notes">>, <<"NOTES", "notes">>, <<"Key", "key">>,
     <<"Passages", "passages">>, <<"Glossary", "glossary">>, <<"In", "in">>,
     <<"God", "god">>, <<"Question", "question">>, <<"Answer", "answer">>,
     <<"Title", "title">>}

LowerWord(c) ==
    IF \E p \in LowerCase : p[1] = c THEN (CHOOSE p \in LowerCase : p[1] = c)[2] ELSE c

\* s.toLowerCase()
toLowerCase(t) == [i \in 1..Len(t) |-> LowerWord(t[i])]

\* s.startsWith(prefix)
startsWith(t, prefix) == Len(t) >= Len(prefix) /\ SubSeq(t, 1, Len(prefix)) = prefix

\* nav.querySelectorAll('a[href^="#"]'), in document order
navLinks(nav) ==
    SelectSeq(Range(nav + 1, SubtreeEnd(nav)),
              LAMBDA j : /\ doc[j].kind = "elem"
                         /\ doc[j].tag = "a"
                         /\ doc[j].href # <<>>
                         /\ doc[j].href[1] = "#")

\* const sectionOrder: { id: a.getAttribute('href').slice(1), label: a.textContent.trim() }
sectionOrder(nav) ==
    LET links == navLinks(nav)
    IN  [k \in 1..Len(links) |->
            [id |-> Str(Tail(doc[links[k]].href)), label |-> Trim(textContent(links[k]))]]

\* function mapLabel(label): the type, or Null
\* a plausible slip: the label Glossary is given a section of its own
mapLabelWithGlossary(label) ==
    LET l == toLowerCase(label)
    IN  IF startsWith(l, <<"preface">>) THEN "preface"
        ELSE IF startsWith(l, <<"introduction">>) THEN "introduction"
        ELSE IF startsWith(l, <<"a", " ", "description">>) THEN "description"
        ELSE IF l = <<"the", " ", "kit", "U+00E1", "b-i-aqdas">> THEN "text"
        ELSE IF startsWith(l, <<"some", " ", "supplementary">>) THEN "supplementary"
        ELSE IF startsWith(l, <<"questions", " ", "and", " ", "answers">>) THEN "questions"
        ELSE IF startsWith(l, <<"a", " ", "synopsis">>) THEN "synopsis"
        ELSE IF l = <<"notes">> THEN "notes"
        ELSE IF startsWith(l, <<"key", " ", "to", " ", "passages">>) THEN "keyPassages"
        ELSE IF l = <<"glossary">> THEN "glossary"
        ELSE Null

mapLabel(label) ==
    LET l == toLowerCase(label)
    IN  IF startsWith(l, <<"preface">>) THEN "preface"
        ELSE IF startsWith(l, <<"introduction">>) THEN "introduction"
        ELSE IF startsWith(l, <<"a", " ", "description">>) THEN "description"
        ELSE IF l = <<"the", " ", "kit", "U+00E1", "b-i-aqdas">> THEN "text"
        ELSE IF startsWith(l, <<"some", " ", "supplementary">>) THEN "supplementary"
        ELSE IF startsWith(l, <<"questions", " ", "and", " ", "answers">>) THEN "questions"
        ELSE IF startsWith(l, <<"a", " ", "synopsis">>) THEN "synopsis"
        ELSE IF l = <<"notes">> THEN "notes"
        ELSE IF startsWith(l, <<"key", " ", "to", " ", "passages">>) THEN "keyPassages"
        ELSE Null

\* sectionOrder.map(s => ({ ...s, map: mapLabel(s.label) })).filter(s => s.map)
mappedOf(order) ==
    SelectSeq([k \in 1..Len(order) |->
                  [id |-> order[k].id, label |-> order[k].label, type |-> mapLabel(order[k].label)]],
              LAMBDA s : s.type # Null)

\* document.querySelector(`a[id="${id}"]`)
querySelectorAnchor(id) ==
    LET found == {j \in 1..Len(doc) :
                     doc[j].kind = "elem" /\ doc[j].tag = "a" /\ doc[j].id = id}
    IN  IF found = {} THEN NoNode ELSE CHOOSE j \in found : \A k \in found : j <= k

\* el.matches(selector), for the selectors that parseDocument passes
\* node.closest(tag): the node or its nearest ancestor with the tag
RECURSIVE closest(_, _)
closest(node, tag) ==
    IF node = NoNode THEN NoNode
    ELSE IF doc[node].kind = "elem" /\ doc[node].tag = tag THEN node
    ELSE closest(parentNode(node), tag)

\* current.querySelector(`a[id="${id}"]`): an anchor with the id below the node
hasAnchorBelow(node, id) ==
    \E j \in Descendants(node) : doc[j].kind = "elem" /\ doc[j].tag = "a" /\ doc[j].id = id

\* while (current) { ... nodes.push(current) ... current = current.nextSibling }
RECURSIVE SectionNodesFrom(_, _)
SectionNodesFrom(current, endId) ==
    IF current = NoNode THEN <<>>
    ELSE IF doc[current].kind = "elem"
    THEN (IF endId \notin {Null, ""} /\ hasAnchorBelow(current, endId) THEN <<>>
          ELSE <<current>> \o SectionNodesFrom(nextSibling(current), endId))
    ELSE SectionNodesFrom(nextSibling(current), endId)

\* function collectSectionNodes(startId, endId): defined by the source, called nowhere
collectSectionNodes(startId, endId) ==
    LET startAnchor == querySelectorAnchor(startId)
    IN  IF startAnchor = NoNode \/ closest(startAnchor, "div") = NoNode THEN <<>>
        ELSE SectionNodesFrom(closest(startAnchor, "div"), endId)

matches(node, selector) ==
    CASE selector = "div.dd" -> doc[node].tag = "div" /\ doc[node].cls = "dd"
      [] selector = "p, li, div" -> doc[node].tag \in {"p", "li", "div"}
      [] selector = "p" -> doc[node].tag = "p"

\* the loop of collectElementsBetween, from node on
RECURSIVE ElementsFrom(_, _, _)
ElementsFrom(node, endAnchor, selector) ==
    IF node = NoNode \/ node = endAnchor THEN <<>>
    ELSE (IF doc[node].kind = "elem" /\ matches(node, selector) THEN <<node>> ELSE <<>>)
         \o ElementsFrom(nextNode(node), endAnchor, selector)

\* function collectElementsBetween(startId, endId, selector)
collectElementsBetween(startId, endId, selector) ==
    LET startAnchor == querySelectorAnchor(startId)
        endAnchor   == IF endId \notin {Null, ""} THEN querySelectorAnchor(endId) ELSE NoNode
    IN  IF startAnchor = NoNode THEN <<>>
        ELSE ElementsFrom(nextNode(startAnchor), endAnchor, selector)

\* (i + 1 < mapped.length) ? mapped[i+1].id : null
nextId == IF idx + 1 <= Len(mapped) THEN mapped[idx + 1].id ELSE Null

\* for (const p of paras) noteText += ' ' + extractTextWithFormatting(p)
RECURSIVE noteTextOf(_)
noteTextOf(paras) ==
    IF paras = <<>> THEN <<>>
    ELSE <<" ">> \o extractTextWithFormatting(Head(paras)) \o noteTextOf(Tail(paras))

\* the body of for (const div of noteDivs): the item pushed, if any
\* a plausible slip: querySelector('p') in place of querySelectorAll('p')
noteItemFirstParagraph(div) ==
    LET spans == {j \in Descendants(div) :
                     doc[j].kind = "elem" /\ doc[j].tag = "span" /\ doc[j].cls = "jb"}
    IN  IF spans = {} THEN <<>>
        ELSE LET titleSpan == CHOOSE j \in spans : \A k \in spans : j <= k
                 titleText == Trim(textContent(titleSpan))
                 noteNum   == Str(SubSeq(titleText, 1, SkipDigits(titleText, 1) - 1))
                 paras     == SelectSeq(Range(div + 1, SubtreeEnd(div)),
                                        LAMBDA j : doc[j].kind = "elem" /\ doc[j].tag = "p")
                 noteText  == noteTextOf(SubSeq(paras, 1, 1))
             IN  IF Trim(noteText) # <<>>
                 THEN <<[n |-> noteNum, text |-> cleanText(noteText)]>>
                 ELSE <<>>

noteItem(div) ==
    LET spans == {j \in Descendants(div) :
                     doc[j].kind = "elem" /\ doc[j].tag = "span" /\ doc[j].cls = "jb"}
    IN  IF spans = {} THEN <<>>
        ELSE LET titleSpan == CHOOSE j \in spans : \A k \in spans : j <= k
                 titleText == Trim(textContent(titleSpan))
                 noteNum   == Str(SubSeq(titleText, 1, SkipDigits(titleText, 1) - 1))
                 paras     == SelectSeq(Range(div + 1, SubtreeEnd(div)),
                                        LAMBDA j : doc[j].kind = "elem" /\ doc[j].tag = "p")
                 noteText  == noteTextOf(paras)
             IN  IF Trim(noteText) # <<>>
                 THEN <<[n |-> noteNum, text |-> cleanText(noteText)]>>
                 ELSE <<>>

RECURSIVE noteItems(_)
noteItems(divs) ==
    IF divs = <<>> THEN <<>> ELSE noteItem(Head(divs)) \o noteItems(Tail(divs))

\* el.querySelector('p, div > div, table, ul, ol, section, article')
hasBlockChild(el) ==
    \E j \in Descendants(el) :
        /\ doc[j].kind = "elem"
        /\ \/ doc[j].tag \in {"p", "table", "ul", "ol", "section", "article"}
           \/ doc[j].tag = "div" /\ doc[parentNode(j)].tag = "div"

\* candidates.filter(el => { ... })
keepCandidate(el) ==
    /\ doc[el].cls # "dd"
    /\ doc[el].cls # "ic"
    /\ \/ doc[el].tag \in {"p", "li"}
       \/ doc[el].tag = "div" /\ ~hasBlockChild(el)

\* the block that the questions loop reads from the element p
blockOf(p) ==
    [raw |-> Trim(textContent(p)), text |-> cleanText(extractTextWithFormatting(p))]

\* for (const p of parasBetween) { ... }
RECURSIVE questionsLoop(_, _)
questionsLoop(q, paras) ==
    IF paras = <<>> THEN q ELSE questionsLoop(blockStep(q, blockOf(Head(paras))), Tail(paras))

\* if (map.type === 'questions') { ... }: sections.questions after the pass
questionsPass(items, paras) ==
    endOfRange(questionsLoop(QaState(Null, 0, <<>>, <<>>, items), paras)).items

\* firstTxt.startsWith('in the name of')
isInvocation(p) ==
    startsWith(toLowerCase(Trim(textContent(p))),
               <<"in", " ", "the", " ", "name", " ", "of">>)

\* for (let i = startIndex; i < parasBetween.length; i++) { ... }: the items pushed
RECURSIVE generalItems(_, _, _)
\* a plausible slip: counter++ is reached by a discarded block as well
generalItemsCountingDiscarded(type, paras, counter) ==
    LET texts == [k \in 1..Len(paras) |->
                     LET found == cleanText(extractTextWithFormatting(paras[k]))
                     IN  IF type = "text" THEN stripLeadingNumber(found) ELSE found]
        kept  == SelectSeq(Range(1, Len(paras)),
                           LAMBDA k : texts[k] # <<>> /\ StrLen(texts[k]) >= 3)
    IN  [i \in 1..Len(kept) |-> [n |-> counter + kept[i] - 1, text |-> texts[kept[i]]]]

generalItems(type, paras, counter) ==
    IF paras = <<>> THEN <<>>
    ELSE LET found == cleanText(extractTextWithFormatting(Head(paras)))
             text  == IF type = "text" THEN stripLeadingNumber(found) ELSE found
         IN  IF text = <<>> \/ StrLen(text) < 3
             THEN generalItems(type, Tail(paras), counter)
             ELSE <<[n |-> counter, text |-> text]>>
                  \o generalItems(type, Tail(paras), counter + 1)

\* const nav ... const mapped: the navigation block is read
BuildSectionOrder ==
    /\ pc = "catalog"
    /\ ~legacyHasContent
    /\ navElement # NoNode
    /\ mapped' = mappedOf(sectionOrder(navElement))
    /\ idx' = 1
    /\ pc' = "sections"
    /\ UNCHANGED <<doc, orderedAnchors, sections, qaVars, textVars, walkVars>>

\* one iteration of for (let i = 0; i < mapped.length; i++): the items go to section
Section(section, items) ==
    /\ sections' = [sections EXCEPT ![section] = items]
    /\ idx' = idx + 1
    /\ UNCHANGED <<pc, doc, orderedAnchors, mapped, qaVars, textVars, walkVars>>

\* if (map.type === 'notes') { ... continue; }
SectionNotes ==
    /\ pc = "sections"
    /\ idx <= Len(mapped)
    /\ mapped[idx].type = "notes"
    /\ Section("notes",
               sections.notes
               \o noteItems(collectElementsBetween(mapped[idx].id, nextId, "div.dd")))

\* if (map.type === 'questions') { ... continue; }
SectionQuestions ==
    /\ pc = "sections"
    /\ idx <= Len(mapped)
    /\ mapped[idx].type = "questions"
    /\ Section("questions",
               questionsPass(sections.questions,
                             SelectSeq(collectElementsBetween(mapped[idx].id, nextId, "p, li, div"),
                                       keepCandidate)))

\* the other sections: each paragraph in turn, numbered by counter
SectionGeneral ==
    /\ pc = "sections"
    /\ idx <= Len(mapped)
    /\ mapped[idx].type \notin {"notes", "questions"}
    /\ LET type  == mapped[idx].type
           paras == collectElementsBetween(mapped[idx].id, nextId, "p")
           from  == IF type = "text" /\ paras # <<>> /\ isInvocation(paras[1])
                    THEN Tail(paras) ELSE paras
       IN  Section(type, sections[type] \o generalItems(type, from, 1))

\* return sections, at the end of Strategy B
ReturnSections ==
    /\ pc = "sections"
    /\ idx > Len(mapped)
    /\ pc' = "returnedSections"
    /\ UNCHANGED <<doc, orderedAnchors, mapped, idx, sections, qaVars, textVars, walkVars>>

-----------------------------------------------------------------------------
(* The walks of collectBetween and collectElementsBetween and the drain of the   *)
(* pending queue, one iteration of their while loops at a time                  *)

\* collectBetween(startEl, endEl) is called as the scans call it: startEl is a
\* marker of the catalog, endEl another one or null
CallCollectBetween ==
    /\ pc = "catalog"
    /\ \E k \in 1..Len(orderedAnchors) :
       \E e \in {NoNode} \cup {orderedAnchors[j].el : j \in 1..Len(orderedAnchors)} :
           /\ walkStart' = orderedAnchors[k].el
           /\ walkEnd' = e
           /\ walkNode' = nextNode(orderedAnchors[k].el)
    /\ walkText' = <<>>
    /\ pc' = "collectBetween"
    /\ UNCHANGED <<walkOut, sections, qaVars, textVars>>
    /\ UNCHANGED <<doc, orderedAnchors, mapped, idx>>

\* if (node.nodeType === 1) { ... text += ...; node = node.nextSibling ? ... }
CollectElement ==
    /\ pc = "collectBetween"
    /\ walkNode # NoNode
    /\ walkNode # walkEnd
    /\ doc[walkNode].kind = "elem"
    /\ ~(nameOrId(walkNode) # "" /\ anchorPattern(nameOrId(walkNode)))
    /\ walkText' = walkText \o extractTextWithFormatting(walkNode)
    /\ walkNode' = IF nextSibling(walkNode) # NoNode THEN nextSibling(walkNode)
                   ELSE nextNode(walkNode)
    /\ UNCHANGED <<pc, walkStart, walkEnd, walkOut, sections, qaVars, textVars>>
    /\ UNCHANGED <<doc, orderedAnchors, mapped, idx>>

\* if (n && anchorPattern.test(n)) break; return cleanText(text)
CollectBreak ==
    /\ pc = "collectBetween"
    /\ walkNode # NoNode
    /\ walkNode # walkEnd
    /\ doc[walkNode].kind = "elem"
    /\ nameOrId(walkNode) # ""
    /\ anchorPattern(nameOrId(walkNode))
    /\ res' = <<cleanText(walkText)>>
    /\ pc' = "collected"
    /\ UNCHANGED <<arg, walkVars, sections, qaVars>>
    /\ UNCHANGED <<doc, orderedAnchors, mapped, idx>>

\* else if (node.nodeType === 3) { text += normalizeText(node.textContent); ... }
CollectTextNode ==
    /\ pc = "collectBetween"
    /\ walkNode # NoNode
    /\ walkNode # walkEnd
    /\ doc[walkNode].kind = "text"
    /\ walkText' = walkText \o normalizeText(doc[walkNode].text)
    /\ walkNode' = nextNode(walkNode)
    /\ UNCHANGED <<pc, walkStart, walkEnd, walkOut, sections, qaVars, textVars>>
    /\ UNCHANGED <<doc, orderedAnchors, mapped, idx>>

\* while (node && node !== endEl) fails: return cleanText(text)
CollectReturn ==
    /\ pc = "collectBetween"
    /\ walkNode = NoNode \/ walkNode = walkEnd
    /\ res' = <<cleanText(walkText)>>
    /\ pc' = "collected"
    /\ UNCHANGED <<arg, walkVars, sections, qaVars>>
    /\ UNCHANGED <<doc, orderedAnchors, mapped, idx>>

\* the ids that a navigation entry of the model points to
TargetIds == {"h1", "h2"}

\* collectElementsBetween(startId, endId, selector) is called as the section loop
\* calls it; with no start anchor it returns [] at once
CallCollectElementsBetween ==
    /\ pc = "catalog"
    /\ \E startId \in TargetIds, endId \in TargetIds \cup {Null},
          selector \in {"p", "p, li, div"} :
           /\ arg' = <<selector>>
           /\ walkStart' = querySelectorAnchor(startId)
           /\ walkEnd' = IF endId # Null THEN querySelectorAnchor(endId) ELSE NoNode
           /\ walkNode' = nextNode(querySelectorAnchor(startId))
           /\ pc' = IF querySelectorAnchor(startId) = NoNode
                    THEN "collectedElements" ELSE "collectElements"
    /\ walkOut' = <<>>
    /\ UNCHANGED <<res, walkText, sections, qaVars>>
    /\ UNCHANGED <<doc, orderedAnchors, mapped, idx>>

\* one iteration of while (node && node !== endAnchor)
ElementsStep ==
    /\ pc = "collectElements"
    /\ walkNode # NoNode
    /\ walkNode # walkEnd
    /\ walkOut' = IF doc[walkNode].kind = "elem" /\ matches(walkNode, arg[1])
                  THEN Append(walkOut, walkNode) ELSE walkOut
    /\ walkNode' = nextNode(walkNode)
    /\ UNCHANGED <<pc, walkStart, walkEnd, walkText, sections, qaVars, textVars>>
    /\ UNCHANGED <<doc, orderedAnchors, mapped, idx>>

\* return out
ElementsReturn ==
    /\ pc = "collectElements"
    /\ walkNode = NoNode \/ walkNode = walkEnd
    /\ pc' = "collectedElements"
    /\ UNCHANGED <<walkVars, sections, qaVars, textVars>>
    /\ UNCHANGED <<doc, orderedAnchors, mapped, idx>>

\* const paras = parasBetween.filter(...): the candidates of the questions pass
QuestionsCandidates ==
    /\ pc = "collectedElements"
    /\ arg = <<"p, li, div">>
    /\ walkOut' = SelectSeq(walkOut, keepCandidate)
    /\ pc' = "questions"
    /\ UNCHANGED <<walkStart, walkEnd, walkNode, walkText, sections, qaVars, textVars>>
    /\ UNCHANGED <<doc, orderedAnchors, mapped, idx>>

\* one iteration of for (const p of paras); walkOut holds the candidates to come
QuestionsBlock ==
    /\ pc = "questions"
    /\ walkOut # <<>>
    /\ \E b \in {blockOf(Head(walkOut))} : SetQa(blockStep(Qa, b))
    /\ walkOut' = Tail(walkOut)
    /\ UNCHANGED <<pc, blocks, walkStart, walkEnd, walkNode, walkText, textVars>>
    /\ UNCHANGED <<doc, orderedAnchors, mapped, idx>>

\* the candidates are exhausted: flush()
QuestionsFlush ==
    /\ pc = "questions"
    /\ walkOut = <<>>
    /\ SetQa(flush(Qa))
    /\ pc' = "drain"
    /\ UNCHANGED <<blocks, walkVars, textVars>>
    /\ UNCHANGED <<doc, orderedAnchors, mapped, idx>>

\* one iteration of while (pendingQueue.length)
DrainStep ==
    /\ pc = "drain"
    /\ pendingQueue # <<>>
    /\ sections' = [sections EXCEPT !.questions = drain(@, <<Head(pendingQueue)>>)]
    /\ prevNum' = Head(pendingQueue)
    /\ pendingQueue' = Tail(pendingQueue)
    /\ UNCHANGED <<pc, blocks, currentNum, currentText, walkVars, textVars>>
    /\ UNCHANGED <<doc, orderedAnchors, mapped, idx>>

\* the queue is empty: continue
DrainReturn ==
    /\ pc = "drain"
    /\ pendingQueue = <<>>
    /\ pc' = "drained"
    /\ UNCHANGED <<sections, qaVars, walkVars, textVars>>
    /\ UNCHANGED <<doc, orderedAnchors, mapped, idx>>

-----------------------------------------------------------------------------
(* Documents *)

\* A document is a body element that holds a sequence of fragments.  The text of
\* the k-th fragment is the single word "txt<k>", so that every text node of a
\* document is told from the others.
\*   flat:    <a name="N"></a> followed by the text
\*   nested:  <p><a name="N"></a>text</p>
\*   self:    <p id="N">text</p>
\*   plain:   <p>text</p>
\*   nav:     <nav class="gc"><a href="#id">label</a>...</nav>, one link per entry
\*   heading: <div class="ic"><a id="N"></a>text</div>
\*   p:       <p>content</p>
\*   div:     <div>content</div>
\*   divp:    <div><p>content</p></div>
\*   note:    <div class="dd"><span class="jb">content</span><p>text</p></div>
\* the links of a navigation block: entries lists them, each as "#", the id of the
\* target and the words of the label
RECURSIVE NavLinkNodes(_)
NavLinkNodes(entries) ==
    IF entries = <<>> THEN <<>>
    ELSE LET rest  == SubSeq(entries, 3, Len(entries))
             stops == {i \in 1..Len(rest) : rest[i] = "#"}
             n     == IF stops = {} THEN Len(rest)
                      ELSE (CHOOSE i \in stops : \A j \in stops : i <= j) - 1
         IN  <<[Element("a", 2) EXCEPT !.href = <<"#", entries[2]>>],
               TextNode(SubSeq(rest, 1, n), 3)>>
             \o NavLinkNodes(SubSeq(rest, n + 1, Len(rest)))

Fragment(f, k) ==
    LET t == <<"txt" \o ToString(k)>>
    IN  CASE f.shape = "flat" ->
                <<[Element("a", 1) EXCEPT !.name = f.name], TextNode(t, 1)>>
          [] f.shape = "nested" ->
                <<Element("p", 1), [Element("a", 2) EXCEPT !.name = f.name], TextNode(t, 2)>>
          [] f.shape = "self" ->
                <<[Element("p", 1) EXCEPT !.id = f.name], TextNode(t, 2)>>
          [] f.shape = "plain" ->
                <<Element("p", 1), TextNode(t, 2)>>
          [] f.shape = "nav" ->
                <<[Element("nav", 1) EXCEPT !.cls = "gc"]>> \o NavLinkNodes(f.content)
          [] f.shape = "heading" ->
                <<[Element("div", 1) EXCEPT !.cls = "ic"],
                  [Element("a", 2) EXCEPT !.id = f.name], TextNode(t, 2)>>
          [] f.shape = "lead" ->
                <<[Element("div", 1) EXCEPT !.cls = "ic"],
                  Element("p", 2), TextNode(t, 3),
                  [Element("a", 2) EXCEPT !.id = f.name]>>
          [] f.shape = "p" ->
                <<Element("p", 1), TextNode(f.content, 2)>>
          [] f.shape = "div" ->
                <<Element("div", 1), TextNode(f.content, 2)>>
          [] f.shape = "divp" ->
                <<Element("div", 1), Element("p", 2), TextNode(f.content, 3)>>
          [] f.shape = "note" ->
                <<[Element("div", 1) EXCEPT !.cls = "dd"],
                  [Element("span", 2) EXCEPT !.cls = "jb"], TextNode(f.content, 3),
                  Element("p", 2), TextNode(t, 3)>>
          [] f.shape = "note2" ->
                <<[Element("div", 1) EXCEPT !.cls = "dd"],
                  [Element("span", 2) EXCEPT !.cls = "jb"], TextNode(f.content, 3),
                  Element("p", 2), TextNode(t, 3),
                  Element("p", 2), TextNode(<<"also" \o ToString(k)>>, 3)>>
          [] f.shape = "note0" ->
                <<[Element("div", 1) EXCEPT !.cls = "dd"],
                  [Element("span", 2) EXCEPT !.cls = "jb"], TextNode(f.content, 3),
                  Element("p", 2), TextNode(<<" ">>, 3)>>
          [] f.shape = "dd" ->
                <<[Element("div", 1) EXCEPT !.cls = "dd"],
                  Element("p", 2), TextNode(t, 3)>>

RECURSIVE FragmentsFrom(_, _)
FragmentsFrom(fs, k) ==
    IF k > Len(fs) THEN <<>> ELSE Fragment(fs[k], k) \o FragmentsFrom(fs, k + 1)

Document(fs) == <<Element("body", 0)>> \o FragmentsFrom(fs, 1)

\* the sequences of at most max fragments of pool in which no name repeats
FragmentSeqs(pool, max) ==
    {fs \in UNION {[1..k -> pool] : k \in 0..max} :
        \A i, j \in 1..Len(fs) : i < j /\ fs[i].name # "" => fs[i].name # fs[j].name}

Marked(shapes, names) ==
    {[shape |-> sh, name |-> n, content |-> <<>>] : sh \in shapes, n \in names}

Plain == [shape |-> "plain", name |-> "", content |-> <<>>]

Block(shape, content) == [shape |-> shape, name |-> "", content |-> content]

NavBlock(entries) == [shape |-> "nav", name |-> "nav", content |-> entries]

NavEntry(id, label) == <<"#", id>> \o label

InitDocument(docs) ==
    /\ pc = "start"
    /\ doc \in docs
    /\ orderedAnchors = <<>>
    /\ mapped = <<>>
    /\ idx = 0
    /\ sections = NoSections
    /\ QaIdle
    /\ WalkIdle
    /\ arg = <<>>
    /\ res = <<>>

\* documents with introduction markers
IntroductionDocs ==
    {Document(fs) : fs \in FragmentSeqs(
        Marked({"flat", "nested"}, {"intro1", "intro1b", "intro1c", "intro2"}) \cup {Plain},
        MaxIntroFragments)}

\* documents with main text markers
TextDocs ==
    {Document(fs) : fs \in FragmentSeqs(
        Marked({"flat", "nested", "self"}, {"par1", "par2", "q1"}) \cup {Plain},
        MaxTextFragments)}

\* the navigation blocks of the documents of Spec
NavBlocks ==
    {NavBlock(NavEntry("h1", <<"Questions", " ", "and", " ", "Answers">>)
              \o NavEntry("h2", <<"Notes">>)),
     NavBlock(NavEntry("h1", <<"The", " ", "Kit", "U+00E1", "b-i-Aqdas">>)
              \o NavEntry("h2", <<"Glossary">>)),
     NavBlock(NavEntry("h1", <<"Preface">>)),
     NavBlock(NavEntry("h1", <<"Some", " ", "Supplementary", " ", "Texts">>)
              \o NavEntry("h2", <<"Glossary">>))}

\* the content blocks of the documents of Spec
ContentBlocks ==
    {Block("p", <<"7">>),
     Block("p", <<"Question", ":", " ", "A">>),
     Block("p", <<"In", " ", "the", " ", "name", " ", "of", " ", "God">>),
     Block("div", <<"1", ".", " ", "Some", " ", "text">>),
     Block("divp", <<"More", " ", "text">>),
     Block("note", <<"1", ".", " ", "Title">>),
     Block("note", <<"Title">>)}

\* documents of every kind: legacy markers, a navigation block, headings, blocks
Documents ==
    {Document(fs) : fs \in FragmentSeqs(
        NavBlocks \cup Marked({"heading"}, {"h1", "h2"}) \cup ContentBlocks \cup {Plain}
        \cup Marked({"flat"}, {"pref1", "q1", "note1", "PAR1"})
        \cup Marked({"nested"}, {"par1"}),
        MaxFragments)}

NextLegacy ==
    \/ BuildCatalog
    \/ ScanPreface
    \/ ScanIntroduction
    \/ ScanDescription
    \/ ScanText
    \/ ScanQuestions
    \/ ScanNotes
    \/ ReturnNothing

SpecIntroduction == InitDocument(IntroductionDocs) /\ [][NextLegacy]_vars

SpecText == InitDocument(TextDocs) /\ [][NextLegacy]_vars

\* the sequences of at most max fragments of pool, names repeating freely
AnyFragmentSeqs(pool, max) == UNION {[1..k -> pool] : k \in 0..max}

\* documents in which a marker name may occur more than once
CatalogDocs ==
    {Document(fs) : fs \in AnyFragmentSeqs(
        Marked({"flat", "nested", "self"}, {"par1", "q1"}) \cup {Plain},
        MaxCatalogFragments)}

SpecCatalog == InitDocument(CatalogDocs) /\ [][NextLegacy]_vars

\* documents for the walks: markers beside and around their text, headings, blocks
WalkDocs ==
    {Document(fs) : fs \in FragmentSeqs(
        Marked({"flat", "nested"}, {"par1", "par2"})
        \cup Marked({"heading"}, {"h1", "h2"})
        \cup {Plain, Block("p", <<"7">>), Block("div", <<"Question", ":", " ", "A">>)},
        MaxWalkFragments)}

NextWalk ==
    \/ BuildCatalog
    \/ CallCollectBetween
    \/ CollectElement
    \/ CollectBreak
    \/ CollectTextNode
    \/ CollectReturn
    \/ CallCollectElementsBetween
    \/ ElementsStep
    \/ ElementsReturn
    \/ QuestionsCandidates
    \/ QuestionsBlock
    \/ QuestionsFlush
    \/ DrainStep
    \/ DrainReturn

\* The walks run in one thread to their end: a step that can be taken is taken.
SpecWalk == InitDocument(WalkDocs) /\ [][NextWalk]_vars /\ WF_vars(NextWalk)

\* navigation blocks in which an entry outside the vocabulary comes between two
\* recognized entries, last, or first
GlossaryNavBlocks ==
    {NavBlock(NavEntry("h1", <<"Preface">>)
              \o NavEntry("h2", <<"Glossary">>)
              \o NavEntry("h3", <<"Notes">>)),
     NavBlock(NavEntry("h1", <<"Questions", " ", "and", " ", "Answers">>)
              \o NavEntry("h2", <<"Glossary">>)),
     NavBlock(NavEntry("h1", <<"Glossary">>)
              \o NavEntry("h2", <<"Preface">>))}

\* documents that begin with the navigation block, the headings and their
\* paragraphs after it
NavDocs ==
    {Document(<<nav>> \o fs) :
        nav \in GlossaryNavBlocks,
        fs \in FragmentSeqs(Marked({"heading"}, {"h1", "h2", "h3"})
                            \cup {Plain, Block("note", <<"Title">>)},
                            MaxNavFragments)}

NextNav ==
    \/ BuildCatalog
    \/ BuildSectionOrder
    \/ SectionNotes
    \/ SectionQuestions
    \/ SectionGeneral
    \/ ReturnSections

SpecNav == InitDocument(NavDocs) /\ [][NextNav]_vars

\* documents in which the markers of a family may leave a gap at ordinal 2
GapDocs ==
    {Document(fs) : fs \in FragmentSeqs(
        Marked({"flat"}, {"pref1", "pref3", "intro1", "intro3", "description1",
                          "description3", "par1", "par3", "q1", "q3", "note1", "note3"}),
        MaxGapFragments)}

SpecGap == InitDocument(GapDocs) /\ [][NextLegacy]_vars

\* documents in which a paragraph may precede the target anchor in its container
RangeDocs ==
    {Document(<<nav>> \o fs) :
        nav \in {NavBlock(NavEntry("h1", <<"Preface">>)
                          \o NavEntry("h2", <<"Introduction">>)),
                 NavBlock(NavEntry("h1", <<"The", " ", "Kit", "U+00E1", "b-i-Aqdas">>)
                          \o NavEntry("h2", <<"Preface">>))},
        fs \in FragmentSeqs(Marked({"heading", "lead"}, {"h1", "h2"})
                            \cup {Plain, Block("p", <<"7">>),
                                  Block("p", <<"In", " ", "the", " ", "name", " ", "of", " ", "God">>)},
                            MaxRangeFragments)}

NextRange ==
    \/ BuildCatalog
    \/ BuildSectionOrder
    \/ SectionGeneral
    \/ ReturnSections

SpecRange == InitDocument(RangeDocs) /\ [][NextRange]_vars

\* documents with a notes range: containers with and without a label, with one
\* paragraph, two, or a blank one
NotesDocs ==
    {Document(<<NavBlock(NavEntry("h1", <<"Notes">>)
                         \o NavEntry("h2", <<"Preface">>))>> \o fs) :
        fs \in FragmentSeqs(Marked({"heading"}, {"h1", "h2"})
                            \cup {Block("note", <<"1", ".", " ", "Title">>),
                                  Block("note2", <<"1", ".", " ", "Title">>),
                                  Block("note0", <<"2", ".", " ", "Title">>),
                                  Block("note", <<"Title">>),
                                  Block("dd", <<>>)},
                            MaxNotesFragments)}

NextNotes ==
    \/ BuildCatalog
    \/ BuildSectionOrder
    \/ SectionNotes
    \/ SectionGeneral
    \/ ReturnSections

SpecNotes == InitDocument(NotesDocs) /\ [][NextNotes]_vars

\* the characters of the texts handed to cleanText; "&nbsp;" is the entity
\* written out in the text
CleanAlphabet == {" ", "\n", "&nbsp;", "a"}

InitClean ==
    /\ pc = "clean"
    /\ arg \in UNION {[1..n -> CleanAlphabet] : n \in 0..MaxCleanLen}
    /\ res = <<>>
    /\ QaIdle
    /\ DocIdle
    /\ sections = NoSections

Clean ==
    /\ pc = "clean"
    /\ res' = <<cleanText(arg)>>
    /\ pc' = "cleaned"
    /\ UNCHANGED <<arg, qaVars, sections, docVars>>

SpecClean == InitClean /\ [][Clean]_vars

Init == InitDocument(Documents)

Next ==
    \/ BuildCatalog
    \/ ScanPreface
    \/ ScanIntroduction
    \/ ScanDescription
    \/ ScanText
    \/ ScanQuestions
    \/ ScanNotes
    \/ ReturnNothing
    \/ BuildSectionOrder
    \/ SectionNotes
    \/ SectionQuestions
    \/ SectionGeneral
    \/ ReturnSections

Spec == Init /\ [][Next]_vars

-----------------------------------------------------------------------------
(* C1, C2: the choice of the strategy *)

\* the marker names that select Strategy A
TriggerMarkers == {"pref1", "intro1", "par1"}

\* the document holds an element that the catalog lists under a trigger name: its
\* name attribute, or its id when it has no name
Trigger ==
    \E j \in 1..Len(doc) :
        /\ doc[j].kind = "elem"
        /\ \/ doc[j].name \in TriggerMarkers
           \/ doc[j].name = "" /\ doc[j].id \in TriggerMarkers

\* the document holds a nav.gc block
HasNav == \E j \in 1..Len(doc) : doc[j].kind = "elem" /\ doc[j].tag = "nav" /\ doc[j].cls = "gc"

\* the positions of parseDocument inside Strategy A, after the test of line 166
LegacyPositions ==
    {"scanIntroduction", "scanDescription", "scanText", "scanQuestions", "scanNotes",
     "returnedLegacy"}

\* the positions from which a scan of Strategy A pushes its items
ScanPositions ==
    {"catalog", "scanIntroduction", "scanDescription", "scanText", "scanQuestions",
     "scanNotes"}

Returned == {"returnedLegacy", "returnedEmpty", "returnedSections"}

SectionNames ==
    {"preface", "introduction", "description", "text", "questions", "supplementary",
     "synopsis", "notes", "glossary", "keyPassages"}

\* C2: for a document with no trigger marker and no nav.gc block, parseDocument
\* goes on to its return with nothing raised, and the model it holds has all ten
\* sections, each empty.
C2_NeitherStrategyAllEmpty ==
    ~Trigger /\ ~HasNav =>
        /\ DOMAIN sections = SectionNames
        /\ \A s \in SectionNames : sections[s] = <<>>
        /\ pc \in {"start", "catalog", "returnedEmpty"}
        /\ pc # "returnedEmpty" => ENABLED Next

\* a document with the markers q1 and note1 but no trigger marker and no
\* navigation block has returned its empty model
C2_Witness ==
    /\ pc = "returnedEmpty"
    /\ ~Trigger
    /\ ~HasNav
    /\ anchorHas("q1")
    /\ anchorHas("note1")
    /\ \A s \in SectionNames : sections[s] = <<>>

-----------------------------------------------------------------------------
(* C3, C4, C5: the questions pass on the scenarios of the specification *)

QuestionFasting == <<"Question", ":", " ", "What", " ", "is", " ", "fasting", "?">>

AnswerAbstention == <<"Answer", ":", " ", "Abstention", " ", "from", " ", "food", ".">>

QuestionA == <<"Question", ":", " ", "A">>

AnswerB == <<"Answer", ":", " ", "B">>

HasDigit(t) == \E i \in 1..Len(t) : IsDigit(t[i])

\* t without its leading "Question:" or "Answer:" label and the space after it
WithoutLabel(t) == SubSeq(t, 4, Len(t))

\* the pass has read exactly a Question-labelled and an Answer-labelled block without numerals
QuestionThenAnswer ==
    /\ pc = "rangeEnd"
    /\ Len(blocks) = 2
    /\ blocks[1][1] = "Question" /\ blocks[1][2] = ":"
    /\ blocks[2][1] = "Answer" /\ blocks[2][2] = ":"
    /\ ~HasDigit(blocks[1]) /\ ~HasDigit(blocks[2])

\* C3 (as amended): for the blocks [Question-labelled Q, Answer-labelled A] without
\* numerals, the first flushed item has ordinal "1" and its text is the text of Q
\* and the text of A, each WITH its "Question:" / "Answer:" label, joined by one
\* space ("Question: What is fasting? Answer: Abstention from food.").
C3_QuestionAnswerKeepLabels ==
    /\ QuestionThenAnswer =>
        /\ Len(sections.questions) = 1
        /\ sections.questions[1].n = "1"
        /\ Str(sections.questions[1].text) = Str(blocks[1]) \o " " \o Str(blocks[2])
    /\ pc = "rangeEnd" /\ blocks = <<QuestionFasting, AnswerAbstention>> =>
        Str(sections.questions[1].text)
            = "Question: What is fasting? Answer: Abstention from food."

\* C3 (as claimed): the labels are stripped from the text
C3_QuestionAnswerLabelsStripped ==
    /\ QuestionThenAnswer =>
        /\ Len(sections.questions) = 1
        /\ sections.questions[1].n = "1"
        /\ Str(sections.questions[1].text)
            = Str(WithoutLabel(blocks[1])) \o " " \o Str(WithoutLabel(blocks[2]))
    /\ pc = "rangeEnd" /\ blocks = <<QuestionFasting, AnswerAbstention>> =>
        Str(sections.questions[1].text) = "What is fasting? Abstention from food."

C3_Witness ==
    /\ pc = "rangeEnd"
    /\ blocks = <<QuestionFasting, AnswerAbstention>>
    /\ Len(sections.questions) = 1
    /\ sections.questions[1].n = "1"

\* the number written at the start of a block: its first digits, three at most
InlineNumber(raw) ==
    LET k == CHOOSE k \in 1..3 :
                 /\ k <= Len(raw)
                 /\ \A i \in 1..k : IsDigit(raw[i])
                 /\ k = 3 \/ k = Len(raw) \/ ~IsDigit(raw[k + 1])
    IN  DigitsValue(SubSeq(raw, 1, k))

\* the step reads a Question-labelled block
ReadsQuestionBlock ==
    /\ pc = "blocks"
    /\ pc' = "blocks"
    /\ Len(blocks') = Len(blocks) + 1
    /\ isQuestion(blocks'[Len(blocks')])

\* C4: whenever a Question-labelled block opens an item, the item's ordinal is the
\* number inline at the start of the block if there is one, otherwise the oldest
\* pending bare number, which leaves the queue, otherwise previousOrdinal + 1; the
\* blocks ["7", "Question: A", "Answer: B"] give the ordinal "7".
C4_QuestionOrdinalPriority ==
    /\ [][ReadsQuestionBlock =>
            LET raw == blocks'[Len(blocks')]
            IN  IF IsDigit(raw[1])
                THEN currentNum' = String(InlineNumber(raw))
                ELSE IF pendingQueue # <<>>
                THEN /\ currentNum' = String(Head(pendingQueue))
                     /\ \E k \in 1..Len(pendingQueue) :
                            pendingQueue' = SubSeq(pendingQueue, k + 1, Len(pendingQueue))
                ELSE /\ currentNum' = String(prevNum' + 1)
                     /\ pendingQueue' = <<>>]_vars
    /\ [](pc = "rangeEnd" /\ blocks = << <<"7">>, QuestionA, AnswerB >> =>
            /\ Len(sections.questions) = 1
            /\ sections.questions[1].n = "7")

C4_Witness ==
    /\ pc = "rangeEnd"
    /\ blocks = << <<"7">>, QuestionA, AnswerB >>
    /\ Len(sections.questions) = 1
    /\ sections.questions[1].n = "7"

\* the numbers of the queue that the drain emits: the first unless it is the ordinal
\* of the last item of the section, a later one unless it repeats the number before it
KeptPending(items, pq) ==
    {i \in 1..Len(pq) :
        IF i = 1 THEN items = <<>> \/ items[Len(items)].n # String(pq[1])
        ELSE pq[i] # pq[i - 1]}

\* the step ends the range
EndsRange == pc = "blocks" /\ pc' = "rangeEnd"

\* the section as it is once a still-open item is flushed
AfterFlush ==
    IF currentNum # Null /\ Trim(currentText) # <<>>
    THEN Append(sections.questions, [n |-> currentNum, text |-> cleanText(currentText)])
    ELSE sections.questions

\* C5 (as amended): at the end of a questions pass, after any still-open item is
\* flushed, every number left in the pending queue is emitted in FIFO order as an
\* item with empty text, except a number equal to the ordinal of the item emitted
\* last; for the blocks ["3.", "4.", "Question: A", "Answer: B"] the section ends
\* with item "3", whose text is "Question: A Answer: B" (the labels are kept),
\* followed by the placeholder item "4" with empty text.
C5_DrainPendingFifo ==
    /\ [][EndsRange =>
            LET base == AfterFlush
                kept == KeptPending(base, pendingQueue)
                out  == sections'.questions
            IN  /\ Len(out) = Len(base) + Cardinality(kept)
                /\ SubSeq(out, 1, Len(base)) = base
                /\ \A i \in kept :
                       out[Len(base) + Cardinality({j \in kept : j <= i})]
                           = [n |-> String(pendingQueue[i]), text |-> <<>>]
                /\ pendingQueue' = <<>>]_vars
    /\ [](pc = "rangeEnd" /\ blocks = << <<"3", ".">>, <<"4", ".">>, QuestionA, AnswerB >> =>
            /\ Len(sections.questions) = 2
            /\ sections.questions[1].n = "3"
            /\ Str(sections.questions[1].text) = "Question: A Answer: B"
            /\ sections.questions[2] = [n |-> "4", text |-> <<>>])

\* C5 (as claimed): item "3" has the text "A B"
C5_ScenarioTextWithoutLabels ==
    pc = "rangeEnd" /\ blocks = << <<"3", ".">>, <<"4", ".">>, QuestionA, AnswerB >> =>
        /\ Len(sections.questions) = 2
        /\ sections.questions[1].n = "3"
        /\ Str(sections.questions[1].text) = "A B"
        /\ sections.questions[2] = [n |-> "4", text |-> <<>>]

C5_Witness ==
    /\ pc = "rangeEnd"
    /\ blocks = << <<"3", ".">>, <<"4", ".">>, QuestionA, AnswerB >>
    /\ Len(sections.questions) = 2
    /\ sections.questions[2] = [n |-> "4", text |-> <<>>]

-----------------------------------------------------------------------------
(* C6, C7: the spans of Strategy A *)

\* the words of the text nodes that lie after node in document order
WordsAfter(node) ==
    UNION {{doc[j].text[k] : k \in 1..Len(doc[j].text)} :
              j \in {j \in (node + 1)..Len(doc) : doc[j].kind = "text"}}

WordsOf(item) == {item.text[k] : k \in 1..Len(item.text)}

\* the catalog holds both markers, the first before the second in the document
InOrder(first, second) ==
    /\ anchorHas(first)
    /\ anchorHas(second)
    /\ anchorGet(first) < anchorGet(second)

\* the item with ordinal n of the section holds no text that lies after the marker
EndsAt(section, n, marker) ==
    \A k \in 1..Len(sections[section]) :
        sections[section][k].n = n =>
            WordsOf(sections[section][k]) \cap WordsAfter(anchorGet(marker)) = {}

\* the families that scanFamily serves, with their sections
SimpleFamilies ==
    {<<"pref", "preface">>, <<"description", "description">>, <<"par", "text">>,
     <<"q", "questions">>, <<"note", "notes">>}

\* C7: for two consecutive markers m_i, m_i+1 of a family, the text extracted for
\* item i holds no text that lies after m_i+1 in document order, wherever the
\* markers sit in the tree.
C7_NoTextOfNextSpan ==
    pc = "returnedLegacy" =>
        \A fam \in SimpleFamilies : \A i \in 1..MaxOrdinal :
            InOrder(fam[1] \o ToString(i), fam[1] \o ToString(i + 1)) =>
                EndsAt(fam[2], i, fam[1] \o ToString(i + 1))

\* position of the item with ordinal n in the section (0 when there is none)
ItemIndex(section, n) ==
    IF \E k \in 1..Len(sections[section]) : sections[section][k].n = n
    THEN CHOOSE k \in 1..Len(sections[section]) : sections[section][k].n = n
    ELSE 0

\* C6: with markers intro<n>, intro<n>b and intro<n+1> (in this order in the
\* document) the introduction receives item "n" immediately followed by item "nb";
\* the text of item "n" ends at intro<n>b, and the text of item "nb" ends at
\* intro<n+1>, or at intro<n>c when that marker is present.
C6_IntroductionSuffixSpans ==
    pc = "returnedLegacy" =>
        \A i \in 1..MaxOrdinal :
            LET n  == ToString(i)
                m  == "intro" \o n
                mb == "intro" \o n \o "b"
                mc == "intro" \o n \o "c"
                m1 == "intro" \o ToString(i + 1)
            IN  InOrder(m, mb) /\ InOrder(mb, m1) /\ (anchorHas(mc) => InOrder(mb, mc) /\ InOrder(mc, m1)) =>
                    /\ ItemIndex("introduction", n) # 0
                    /\ ItemIndex("introduction", n \o "b") = ItemIndex("introduction", n) + 1
                    /\ EndsAt("introduction", n, mb)
                    /\ EndsAt("introduction", n \o "b", IF anchorHas(mc) THEN mc ELSE m1)

-----------------------------------------------------------------------------
(* C8, C10: order and uniqueness of the items of a section *)

\* t holds s as a run of consecutive characters
Contains(t, s) == \E i \in 0..(Len(t) - Len(s)) : SubSeq(t, i + 1, i + Len(s)) = s

\* the item derives from the block: a placeholder from the bare-number block that
\* holds its number, a text-bearing item from a block whose text is part of its text
DerivesFrom(item, content) ==
    IF item.text = <<>>
    THEN /\ numOnly(rawTextOf(content))
         /\ item.n = String(DigitsValue(LeadingDigits(rawTextOf(content))))
    ELSE /\ ~numOnly(rawTextOf(content))
         /\ stripLeadingNumber(blockText(content)) # <<>>
         /\ Contains(item.text, stripLeadingNumber(blockText(content)))

\* C8: the items of a section are in the relative order of the blocks they derive
\* from (here: after one questions pass, each item can be given a source block
\* such that an earlier item has an earlier source block).
C8_ItemsInSourceOrder ==
    pc = "rangeEnd" /\ (\A i \in 1..Len(blocks) : blocks[i] # RangeBreak) =>
        \E src \in [1..Len(sections.questions) -> 1..Len(blocks)] :
            /\ \A i \in 1..Len(sections.questions) :
                   DerivesFrom(sections.questions[i], blocks[src[i]])
            /\ \A i, j \in 1..Len(sections.questions) : i < j => src[i] < src[j]

\* C10: in every section of the model no two items carry the same ordinal
C10_OrdinalsUniqueInSection ==
    \A s \in DOMAIN sections :
        \A i, j \in 1..Len(sections[s]) :
            i # j => sections[s][i].n # sections[s][j].n

-----------------------------------------------------------------------------
(* C9: label stripping *)

AllWsIn(t, from, to) == \A i \in from..to : IsWs(t[i])

AllDigitsIn(t, from, to) == \A i \in from..to : IsDigit(t[i])

\* t begins with a numeric label as the comment of stripLeadingNumber lists them
\* ("1.", "1", "(1)", "[1]", "1)", "1:", "1]", with optional spaces around), followed
\* by white space or by the end of the string: stated as the language of the label,
\* that is, some way of cutting a prefix of t into the parts of a label exists.
StartsWithNumericLabel(t) ==
    \E a \in 0..Len(t) :
        /\ AllWsIn(t, 1, a)
        /\ \E o \in 0..1 :
            /\ a + o <= Len(t)
            /\ o = 1 => t[a + 1] \in OpenPunct
            /\ \E b \in 0..(Len(t) - a - o) :
                /\ AllWsIn(t, a + o + 1, a + o + b)
                /\ \E d \in 1..3 :
                    /\ a + o + b + d <= Len(t)
                    /\ AllDigitsIn(t, a + o + b + 1, a + o + b + d)
                    /\ \E c \in 0..(Len(t) - (a + o + b + d)) :
                        LET e == a + o + b + d + c   \* end of the label proper
                        IN  /\ \/ c = 0
                               \/ /\ AllWsIn(t, a + o + b + d + 1, e - 1)
                                  /\ t[e] \in ClosePunct
                            /\ \/ e = Len(t)
                               \/ IsWs(t[e + 1])

\* C9 (as amended): stripLeadingNumber leaves a text that does not begin with a
\* numeric label as it is, and applying it a second time changes the result of the
\* first application exactly when that result itself begins with a numeric label
\* (a text that begins with two labels in a row loses one label per application).
C9_StripNoOpAndIdempotentUnlessSecondLabel ==
    /\ pc \in {"stripped", "strippedTwice"} /\ ~StartsWithNumericLabel(arg) => res[1] = arg
    /\ pc = "strippedTwice" => (res[2] = res[1] <=> ~StartsWithNumericLabel(res[1]))

\* C9 (as claimed): no-op without a label, and idempotent on every text
C9_StripIdempotentOnEveryText ==
    /\ pc \in {"stripped", "strippedTwice"} /\ ~StartsWithNumericLabel(arg) => res[1] = arg
    /\ pc = "strippedTwice" => res[2] = res[1]

\* "1 1 a" loses one label per application
C9_Witness ==
    /\ pc = "strippedTwice"
    /\ arg = <<"1", " ", "1", " ", "a">>
    /\ res = << <<"1", " ", "a">>, <<"a">> >>

-----------------------------------------------------------------------------
(* C11: the anchor catalog *)

\* the marker name of an element: its name attribute, or its id when it has none
MarkerName(j) == IF doc[j].name # "" THEN doc[j].name ELSE doc[j].id

\* the elements of the document that carry the marker name
Carriers(name) ==
    {j \in 1..Len(doc) : doc[j].kind = "elem" /\ MarkerName(j) = name}

\* C11: once built, the catalog holds each marker name at most once, maps it to
\* the first element in document order that carries it, misses no marker name of
\* the document, and lists the names in the order of their first carriers.
C11_CatalogFirstOccurrenceInOrder ==
    pc # "start" =>
        /\ \A i, k \in 1..Len(orderedAnchors) :
               i # k => orderedAnchors[i].name # orderedAnchors[k].name
        /\ \A i \in 1..Len(orderedAnchors) :
               /\ orderedAnchors[i].el \in Carriers(orderedAnchors[i].name)
               /\ \A j \in Carriers(orderedAnchors[i].name) : orderedAnchors[i].el <= j
        /\ \A name \in AnchorNames :
               Carriers(name) # {} => \E i \in 1..Len(orderedAnchors) : orderedAnchors[i].name = name
        /\ \A i, k \in 1..Len(orderedAnchors) :
               i < k => orderedAnchors[i].el < orderedAnchors[k].el

\* the catalog is built for a document in which par1 occurs twice, q1 in between
C11_Witness ==
    /\ pc # "start"
    /\ Cardinality(Carriers("par1")) >= 2
    /\ \E j \in Carriers("q1") :
           \E i, k \in Carriers("par1") : i < j /\ j < k
    /\ Len(orderedAnchors) = 2

-----------------------------------------------------------------------------
(* C12, C17: the text leaves of a span of Strategy A *)

\* the element carries a name that the marker pattern accepts
IsMarker(j) == doc[j].kind = "elem" /\ MarkerName(j) # "" /\ MarkerName(j) \in AnchorNames

\* the first marker after the element in document order (Len(doc) + 1 when none)
SpanEnd(el) ==
    LET later == {j \in (el + 1)..Len(doc) : IsMarker(j)}
    IN  IF later = {} THEN Len(doc) + 1 ELSE CHOOSE j \in later : \A k \in later : j <= k

\* the words of the text leaves between the element and the end of its span
SpanWords(el) ==
    UNION {{doc[j].text[k] : k \in 1..Len(doc[j].text)} :
              j \in {j \in (el + 1)..(SpanEnd(el) - 1) : doc[j].kind = "text"}}

\* number of occurrences of the word in the text
Occurrences(t, w) == Cardinality({k \in 1..Len(t) : t[k] = w})

\* the family is scanned up to ordinal i: the markers 1..i are all in the catalog
Scanned(family, i) == \A k \in 1..i : anchorHas(family \o ToString(k))

\* C12: every text leaf between a marker and the end of its span (the next marker
\* of any family, or the end of the document) is in the text of the item exactly
\* once; the leaves hold no numeric label here, so nothing is stripped.
C12_SpanLeavesExactlyOnce ==
    pc = "returnedLegacy" =>
        \A fam \in SimpleFamilies : \A i \in 1..MaxOrdinal :
            Scanned(fam[1], i) =>
                LET words == SpanWords(anchorGet(fam[1] \o ToString(i)))
                IN  /\ words # {} => ItemIndex(fam[2], i) # 0
                    /\ \A k \in 1..Len(sections[fam[2]]) :
                           sections[fam[2]][k].n = i =>
                               \A w \in words : Occurrences(sections[fam[2]][k].text, w) = 1

-----------------------------------------------------------------------------
(* C13: the input tree *)

\* C13: no step of parseDocument, under either strategy, changes the tree: its
\* nodes, their attributes, their nesting and their text stay as they were.
C13_TreeOnlyRead == [][doc' = doc]_vars

\* a run of Strategy B has returned items read from the tree
C13_Witness ==
    /\ pc = "returnedSections"
    /\ HasNav
    /\ \E s \in SectionNames : sections[s] # <<>>

-----------------------------------------------------------------------------
(* C14: termination *)

\* C14: every walk of collectBetween and of collectElementsBetween moves forward
\* in document order at each iteration and comes to its return, where it has
\* collected what the function returns; the drain of the pending queue shortens
\* the queue at each iteration and comes to its end.
C14_WalksAndDrainTerminate ==
    /\ [][pc = "collectBetween" /\ pc' = "collectBetween" =>
              walkNode' = NoNode \/ walkNode' > walkNode]_vars
    /\ [][pc = "collectElements" /\ pc' = "collectElements" =>
              walkNode' = NoNode \/ walkNode' > walkNode]_vars
    /\ [][pc = "questions" /\ pc' = "questions" => Len(walkOut') < Len(walkOut)]_vars
    /\ [][pc = "drain" /\ pc' = "drain" => Len(pendingQueue') < Len(pendingQueue)]_vars
    /\ [](pc = "collected" => res = <<collectBetween(walkStart, walkEnd)>>)
    /\ (pc \in {"collectBetween", "collectElements", "questions", "drain"})
           ~> (pc \in {"collected", "collectedElements", "drained"})

\* a walk of collectBetween has gone through an element that is the last child of
\* its parent and then through its text, and has returned
C14_Witness ==
    /\ pc = "collected"
    /\ walkEnd = NoNode
    /\ Len(doc) >= walkStart + 3
    /\ doc[Len(doc) - 1].kind = "elem"
    /\ Len(res[1]) >= 2

-----------------------------------------------------------------------------
(* C15: content under a navigation entry outside the vocabulary *)

\* the entries of the navigation block
NavEntries == sectionOrder(navElement)

\* the node is the anchor that a navigation entry points to
IsTarget(j) ==
    /\ doc[j].kind = "elem"
    /\ doc[j].tag = "a"
    /\ \E k \in 1..Len(NavEntries) : NavEntries[k].id = doc[j].id

\* the node is the anchor of an entry whose label is outside the vocabulary
IsUnrecognizedTarget(j) ==
    /\ IsTarget(j)
    /\ \E k \in 1..Len(NavEntries) :
           NavEntries[k].id = doc[j].id /\ mapLabel(NavEntries[k].label) = Null

\* the first entry anchor after the node (Len(doc) + 1 when none)
NextTarget(j) ==
    LET later == {k \in (j + 1)..Len(doc) : IsTarget(k)}
    IN  IF later = {} THEN Len(doc) + 1 ELSE CHOOSE k \in later : \A m \in later : k <= m

\* the words of the paragraphs that follow the anchor, up to the next entry anchor
ContentWords(j) ==
    UNION {{doc[t].text[k] : k \in 1..Len(doc[t].text)} :
              t \in {t \in (j + 1)..(NextTarget(j) - 1) :
                        doc[t].kind = "text" /\ doc[parentNode(t)].tag = "p"}}

\* the words of the items of every section
ExtractedWords ==
    UNION {UNION {{sections[s][i].text[k] : k \in 1..Len(sections[s][i].text)} :
                     i \in 1..Len(sections[s])} :
              s \in SectionNames}

\* C15: when Strategy B has returned, no word of a paragraph that follows the
\* anchor of a navigation entry outside the vocabulary is in any section.
C15_UnrecognizedContentNeverExtracted ==
    pc = "returnedSections" =>
        \A j \in 1..Len(doc) :
            IsUnrecognizedTarget(j) => ContentWords(j) \cap ExtractedWords = {}

-----------------------------------------------------------------------------
(* C16: the scans and the first missing ordinal *)

\* the marker families of Strategy A and the sections they fill
Families ==
    {<<"pref", "preface">>, <<"intro", "introduction">>, <<"description", "description">>,
     <<"par", "text">>, <<"q", "questions">>, <<"note", "notes">>}

\* the ordinal of an item of the family without its suffix: the introduction's
\* ordinals are strings with an optional suffix, the others are numbers
BaseOrdinal(family, n) ==
    IF family = "intro"
    THEN CHOOSE i \in 1..(MaxOrdinal + 1) :
             n \in {ToString(i), ToString(i) \o "b", ToString(i) \o "c"}
    ELSE n

\* the family emits nothing beyond its first missing ordinal
StopsAtFirstGap(f) ==
    \A n \in 1..(MaxOrdinal + 1) :
        ~anchorHas(f[1] \o ToString(n)) =>
            \A i \in 1..Len(sections[f[2]]) :
                BaseOrdinal(f[1], sections[f[2]][i].n) <= n

\* C16: when Strategy A has returned, no family holds an item whose base ordinal
\* is greater than the first ordinal whose marker is absent from the catalog.
C16_ScanStopsAtFirstMissingOrdinal ==
    pc = "returnedLegacy" => \A f \in Families : StopsAtFirstGap(f)

-----------------------------------------------------------------------------
(* C17: the walk and the markers of other families *)

\* the marker names of the family
FamilyMarkers(family) ==
    {family \o ToString(i) \o suf : i \in 0..MaxOrdinal, suf \in {"", "a", "b", "c"}}

\* the words of the text leaves located after the first marker of another family
\* that follows the element (none when no such marker follows)
WordsAfterOtherFamily(el, family) ==
    UNION {{doc[t].text[k] : k \in 1..Len(doc[t].text)} :
              t \in {t \in (el + 1)..Len(doc) :
                        /\ doc[t].kind = "text"
                        /\ \E j \in (el + 1)..(t - 1) :
                               IsMarker(j) /\ MarkerName(j) \notin FamilyMarkers(family)}}

\* the words of the text
Words(text) == {text[k] : k \in 1..Len(text)}

\* C17: when Strategy A has returned, the text of the item of marker par<n> or
\* q<n> holds no word located after a marker of another family that follows the
\* marker, wherever that marker is nested.
C17_WalkStopsAtAnyMarker ==
    pc = "returnedLegacy" =>
        \A f \in {<<"par", "text">>, <<"q", "questions">>} :
            \A i \in 1..Len(sections[f[2]]) :
                Words(sections[f[2]][i].text)
                \cap WordsAfterOtherFamily(anchorGet(f[1] \o ToString(sections[f[2]][i].n)), f[1])
                    = {}

-----------------------------------------------------------------------------
(* C18: the implicit question start *)

\* the step reads a block that is neither a bare number nor Question- nor
\* Answer-labelled, with no item open, whose text after stripping is longer than 2
ReadsUnlabelledBlockWhileClosed ==
    /\ pc = "blocks"
    /\ pc' = "blocks"
    /\ Len(blocks') = Len(blocks) + 1
    /\ currentNum = Null
    /\ LET b == PlainBlock(blocks'[Len(blocks')])
       IN  /\ ~numOnly(b.raw)
           /\ ~isQuestion(b.raw)
           /\ ~isAnswer(b.raw)
           /\ StrLen(stripLeadingNumber(b.text)) > 2

\* C18: such a block opens an item whose ordinal is the inline number, else the
\* oldest pending number, else previousOrdinal + 1.
C18_ImplicitStartAlwaysOpens ==
    [][ReadsUnlabelledBlockWhileClosed =>
            LET raw == blocks'[Len(blocks')]
            IN  IF IsDigit(raw[1])
                THEN currentNum' = String(InlineNumber(raw))
                ELSE IF pendingQueue # <<>>
                THEN currentNum' = String(Head(pendingQueue))
                ELSE currentNum' = String(prevNum + 1)]_vars

\* what the loop does instead: the item is opened with the inline number, else
\* with the oldest pending number, which leaves the queue; with no inline number
\* and an empty pending queue the block is passed over and nothing changes
C18_ImplicitStartNeedsNumber ==
    [][ReadsUnlabelledBlockWhileClosed =>
            LET raw == blocks'[Len(blocks')]
            IN  IF IsDigit(raw[1])
                THEN /\ currentNum' = String(InlineNumber(raw))
                     /\ currentText' = stripLeadingNumber(PlainBlock(raw).text)
                     /\ sections' = sections
                ELSE IF pendingQueue # <<>>
                THEN /\ currentNum' = String(Head(pendingQueue))
                     /\ currentText' = stripLeadingNumber(PlainBlock(raw).text)
                     /\ \E k \in 1..Len(pendingQueue) :
                            pendingQueue' = SubSeq(pendingQueue, k + 1, Len(pendingQueue))
                     /\ sections' = sections
                ELSE UNCHANGED <<currentNum, prevNum, pendingQueue, currentText, sections>>]_vars

-----------------------------------------------------------------------------
(* C19: the answer block *)

\* the step reads an Answer-labelled block (one that is not Question-labelled as
\* well) while an item is open
ReadsAnswerBlockWhileOpen ==
    /\ pc = "blocks"
    /\ pc' = "blocks"
    /\ Len(blocks') = Len(blocks) + 1
    /\ currentNum # Null
    /\ isAnswer(PlainBlock(blocks'[Len(blocks')]).raw)
    /\ ~isQuestion(PlainBlock(blocks'[Len(blocks')]).raw)

\* C19: an Answer-labelled block read while an item is open appends its text,
\* stripped of a leading numeric label, to the text of the open item after one
\* space; the ordinal of the open item, the pending queue, previousOrdinal and the
\* emitted items do not change.
C19_AnswerAppendsAndChangesNothingElse ==
    [][ReadsAnswerBlockWhileOpen =>
            /\ currentText' = currentText \o <<" ">>
                                \o stripLeadingNumber(PlainBlock(blocks'[Len(blocks')]).text)
            /\ currentNum' = currentNum
            /\ pendingQueue' = pendingQueue
            /\ prevNum' = prevNum
            /\ sections' = sections]_vars

\* a number is pending, a question has opened an item and an answer has been
\* appended to it
C19_Witness ==
    /\ pc = "blocks"
    /\ blocks = << <<"3", ".">>, <<"4", ".">>, QuestionA, AnswerB >>
    /\ currentNum = "3"
    /\ pendingQueue = <<4>>
    /\ Str(currentText) = "Question: A Answer: B"
    /\ sections.questions = <<>>

-----------------------------------------------------------------------------
(* C20: the number of the opened item and the head of the pending queue *)

\* the step reads a block and an item is open after it that the block has opened:
\* a Question-labelled block, or an unlabelled block read while no item was open
OpensItem ==
    /\ pc = "blocks"
    /\ pc' = "blocks"
    /\ Len(blocks') = Len(blocks) + 1
    /\ currentNum' # Null
    /\ \/ isQuestion(PlainBlock(blocks'[Len(blocks')]).raw)
       \/ currentNum = Null

\* C20: right after a block opens an item with ordinal n, explicitly or
\* implicitly, the head of the pending queue is not n.
C20_HeadOfQueueIsNotOpenedOrdinal ==
    [][OpensItem => \/ pendingQueue' = <<>>
                    \/ String(Head(pendingQueue')) # currentNum']_vars

\* the bare number 3 was read twice, then a question opened item 3: both entries
\* have left the queue
C20_Witness ==
    /\ pc = "blocks"
    /\ blocks = << <<"3", ".">>, <<"3", ".">>, QuestionA >>
    /\ currentNum = "3"
    /\ pendingQueue = <<>>

-----------------------------------------------------------------------------
(* C21: the range of a section in Strategy B *)

\* the elements matching the selector in the subtrees of the nodes, in document
\* order
BlocksWithin(nodes, selector) ==
    SelectSeq(Range(1, Len(doc)),
              LAMBDA j : /\ doc[j].kind = "elem"
                         /\ matches(j, selector)
                         /\ \E k \in 1..Len(nodes) : j \in nodes[k]..SubtreeEnd(nodes[k]))

\* C21: the blocks extracted for a section in general mode are the paragraphs in
\* the subtree of the container div of the target anchor and of the container's
\* following siblings, up to and excluding the first sibling that holds the next
\* target anchor.
C21_RangeIsContainerAndSiblings ==
    pc = "sections" /\ idx <= Len(mapped) /\ mapped[idx].type \notin {"notes", "questions"} =>
        collectElementsBetween(mapped[idx].id, nextId, "p")
            = BlocksWithin(collectSectionNodes(mapped[idx].id, nextId), "p")

-----------------------------------------------------------------------------
(* C22: the ordinals of general mode *)

\* the step extracts one navigation range in general mode
ExtractsGeneralRange ==
    /\ pc = "sections"
    /\ idx <= Len(mapped)
    /\ idx' = idx + 1
    /\ mapped[idx].type \notin {"notes", "questions"}

\* the text that general mode takes from the block for a section of the type
GeneralText(type, p) ==
    IF type = "text" THEN stripLeadingNumber(cleanText(extractTextWithFormatting(p)))
    ELSE cleanText(extractTextWithFormatting(p))

\* the blocks of the range whose text has 3 characters or more, the leading
\* invocation of the main text set aside
KeptBlocks ==
    LET type  == mapped[idx].type
        paras == collectElementsBetween(mapped[idx].id, nextId, "p")
        from  == IF type = "text" /\ paras # <<>> /\ isInvocation(paras[1])
                 THEN Tail(paras) ELSE paras
    IN  SelectSeq(from, LAMBDA p : StrLen(GeneralText(type, p)) >= 3)

\* C22: the items that general mode emits for one navigation range carry the
\* ordinals 1..k without a gap, item i holding the text of the i-th block, in
\* document order, among the blocks of the range whose text has 3 characters or
\* more: a shorter block yields no item and takes no ordinal.
C22_GeneralOrdinalsSequential ==
    [][ExtractsGeneralRange =>
            LET type == mapped[idx].type
                old  == Len(sections[type])
            IN  /\ Len(sections'[type]) = old + Len(KeptBlocks)
                /\ SubSeq(sections'[type], 1, old) = sections[type]
                /\ \A i \in 1..Len(KeptBlocks) :
                       /\ sections'[type][old + i].n = i
                       /\ sections'[type][old + i].text = GeneralText(type, KeptBlocks[i])
                       /\ StrLen(sections'[type][old + i].text) >= 3
                       /\ i > 1 => KeptBlocks[i - 1] < KeptBlocks[i]]_vars

\* a short block came between the heading and a paragraph: the paragraph is item 1
C22_Witness ==
    /\ pc = "returnedSections"
    /\ Len(sections.preface) = 1
    /\ sections.preface[1].n = 1
    /\ \E j \in 1..Len(doc) :
           /\ doc[j].kind = "text"
           /\ doc[j].text = <<"7">>
           /\ querySelectorAnchor("h1") # NoNode
           /\ querySelectorAnchor("h1") < j
           /\ \E t \in (j + 1)..Len(doc) :
                  doc[t].kind = "text" /\ doc[t].text = sections.preface[1].text

-----------------------------------------------------------------------------
(* C23: previousOrdinal after a flush *)

\* the step flushes the open item into the section; the drain that may follow the
\* flush at the end of the range has nothing to emit
FlushEmits ==
    /\ pc = "blocks"
    /\ Len(sections'.questions) = Len(sections.questions) + 1
    /\ sections'.questions[Len(sections'.questions)].text # <<>>
    /\ pc' = "blocks" \/ pendingQueue = <<>>

\* C23: after every flush that emits an item, previousOrdinal is the numeric
\* value of the ordinal of that item, whatever the ordinal, 0 included.
C23_PreviousOrdinalFollowsFlush ==
    [][FlushEmits =>
            prevNum' = parseInt(sections'.questions[Len(sections'.questions)].n)]_vars

-----------------------------------------------------------------------------
(* C24: the notes of Strategy B *)

\* the step extracts the range of a notes entry
ExtractsNotesRange ==
    /\ pc = "sections"
    /\ idx <= Len(mapped)
    /\ idx' = idx + 1
    /\ mapped[idx].type = "notes"

\* the label elements of the container
LabelsOf(div) ==
    {j \in Descendants(div) : doc[j].kind = "elem" /\ doc[j].tag = "span" /\ doc[j].cls = "jb"}

\* the text of the p descendants of the container, in document order, a space
\* before each
RECURSIVE ParagraphTextFrom(_, _)
ParagraphTextFrom(j, last) ==
    IF j > last THEN <<>>
    ELSE (IF doc[j].kind = "elem" /\ doc[j].tag = "p"
          THEN <<" ">> \o textContent(j) ELSE <<>>)
         \o ParagraphTextFrom(j + 1, last)

\* the containers of the range that have a label and paragraph text
NotedContainers ==
    SelectSeq(collectElementsBetween(mapped[idx].id, nextId, "div.dd"),
              LAMBDA d : /\ LabelsOf(d) # {}
                         /\ Trim(ParagraphTextFrom(d + 1, SubtreeEnd(d))) # <<>>)

\* C24: the notes range yields one note for each div.dd container that has a
\* span.jb label and non-empty paragraph text, in document order, and none for any
\* other container; the ordinal of the note is the leading numeral of the first
\* label and its text is the text of all p descendants of the container.
C24_OneNotePerLabelledContainer ==
    [][ExtractsNotesRange =>
            LET old == Len(sections.notes)
            IN  /\ Len(sections'.notes) = old + Len(NotedContainers)
                /\ SubSeq(sections'.notes, 1, old) = sections.notes
                /\ \A i \in 1..Len(NotedContainers) :
                       LET d     == NotedContainers[i]
                           label == CHOOSE j \in LabelsOf(d) : \A k \in LabelsOf(d) : j <= k
                       IN  /\ sections'.notes[old + i].n
                                = Str(LeadingDigits(Trim(textContent(label))))
                           /\ sections'.notes[old + i].text
                                = cleanText(ParagraphTextFrom(d + 1, SubtreeEnd(d)))]_vars

\* a container without a label, then a labelled container with two paragraphs:
\* one note, which holds both paragraphs
C24_Witness ==
    /\ pc = "returnedSections"
    /\ Len(sections.notes) = 1
    /\ sections.notes[1].n = "1"
    /\ Len(sections.notes[1].text) = 3
    /\ \E d \in 1..Len(doc) :
           /\ doc[d].kind = "elem"
           /\ doc[d].cls = "dd"
           /\ LabelsOf(d) = {}
           /\ querySelectorAnchor("h1") # NoNode
           /\ querySelectorAnchor("h1") < d

-----------------------------------------------------------------------------
(* C25: cleanText and white space *)

\* C25: the text that cleanText returns has no run of two or more white-space
\* characters and neither begins nor ends with white space.
C25_CleanTextCollapsesEveryRun ==
    pc = "cleaned" =>
        /\ \A i \in 1..(Len(res[1]) - 1) : ~(IsWs(res[1][i]) /\ IsWs(res[1][i + 1]))
        /\ res[1] # <<>> => ~IsWs(res[1][1]) /\ ~IsWs(res[1][Len(res[1])])

-----------------------------------------------------------------------------
(* C26: the block discarded as noise *)

\* the step reads, while no item is open, a block that is neither a bare number
\* nor labelled and whose stripped text has at most 2 characters
ReadsNoiseWhileClosed ==
    /\ pc = "blocks"
    /\ pc' = "blocks"
    /\ Len(blocks') = Len(blocks) + 1
    /\ currentNum = Null
    /\ LET b == PlainBlock(blocks'[Len(blocks')])
       IN  /\ ~numOnly(b.raw)
           /\ ~isQuestion(b.raw)
           /\ ~isAnswer(b.raw)
           /\ StrLen(stripLeadingNumber(b.text)) <= 2

\* C26: a block discarded as noise while no item is open leaves the machine as it
\* was: no item is opened or emitted, previousOrdinal and the pending queue are
\* unchanged.
C26_NoiseLeavesStateUnchanged ==
    [][ReadsNoiseWhileClosed =>
            UNCHANGED <<currentNum, prevNum, pendingQueue, currentText, sections>>]_vars

-----------------------------------------------------------------------------
(* C27: items without text *)

\* the items that the step adds to the questions section
AddedItems ==
    SubSeq(sections'.questions, Len(sections.questions) + 1, Len(sections'.questions))

\* C27: an item emitted while the blocks of a pass are read has text; the end of
\* the range adds the flushed item, which has text, before the placeholders of the
\* pending queue, which have none; so in one pass every item without text comes
\* after every item with text.
C27_PlaceholdersOnlyFromDrain ==
    /\ [][pc = "blocks" =>
              /\ Len(sections'.questions) >= Len(sections.questions)
              /\ SubSeq(sections'.questions, 1, Len(sections.questions)) = sections.questions]_vars
    /\ [][pc = "blocks" /\ pc' = "blocks" =>
              \A i \in 1..Len(AddedItems) : AddedItems[i].text # <<>>]_vars
    /\ [][pc = "blocks" /\ pc' = "rangeEnd" =>
              \A i, j \in 1..Len(AddedItems) :
                  i < j /\ AddedItems[i].text = <<>> => AddedItems[j].text = <<>>]_vars

\* a pass has ended with an open item and a pending number: the item with text
\* comes first, the placeholder after it
C27_Witness ==
    /\ pc = "rangeEnd"
    /\ blocks = << <<"7">>, QuestionA, <<"4", ".">> >>
    /\ Len(sections.questions) = 2
    /\ sections.questions[1].n = "7"
    /\ sections.questions[1].text # <<>>
    /\ sections.questions[2] = [n |-> "4", text |-> <<>>]

-----------------------------------------------------------------------------
(* C28: what closes an open item *)

\* the step reads a block while an item is open
ReadsBlockWhileOpen ==
    /\ pc = "blocks"
    /\ pc' = "blocks"
    /\ Len(blocks') = Len(blocks) + 1
    /\ currentNum # Null

\* C28: while an item is open, a bare-number block only lengthens the pending
\* queue by its number, and a block that is neither a bare number nor
\* Question-labelled, an inline number at its start or not, leaves the item open
\* with its ordinal, its text kept or lengthened, and emits nothing: the item is
\* closed only by a Question-labelled block or by the end of the range.
C28_OpenItemClosedOnlyByQuestionOrEnd ==
    [][ReadsBlockWhileOpen =>
            LET raw == PlainBlock(blocks'[Len(blocks')]).raw
            IN  IF numOnly(raw)
                THEN /\ pendingQueue' = Append(pendingQueue, DigitsValue(LeadingDigits(raw)))
                     /\ UNCHANGED <<currentNum, prevNum, currentText, sections>>
                ELSE IF isQuestion(raw) THEN TRUE
                ELSE /\ currentNum' = currentNum
                     /\ Len(currentText') >= Len(currentText)
                     /\ SubSeq(currentText', 1, Len(currentText)) = currentText
                     /\ UNCHANGED <<prevNum, pendingQueue, sections>>]_vars

\* an item was open when a bare number, then a block with an inline number came:
\* the number is pending and the block is part of the open item
C28_Witness ==
    /\ pc = "blocks"
    /\ blocks = << QuestionA, <<"7">>, <<"2", ".", " ", "Some", " ", "text">> >>
    /\ currentNum = "1"
    /\ pendingQueue = <<7>>
    /\ Str(currentText) = "Question: A Some text"
    /\ sections.questions = <<>>

-----------------------------------------------------------------------------
(* C29: the sections that each strategy can fill *)

\* the sections that the scans of Strategy A push to
LegacySections == {"preface", "introduction", "description", "text", "questions", "notes"}

\* C29: the glossary section is empty in every model that parseDocument returns;
\* a model returned by Strategy A has items in no section other than preface,
\* introduction, description, text, questions and notes, so supplementary,
\* synopsis and keyPassages have items only in a model returned by Strategy B.
C29_GlossaryEmptyAndStrategySections ==
    /\ sections.glossary = <<>>
    /\ \A k \in 1..Len(mapped) : mapped[k].type # "glossary"
    /\ pc \notin {"sections", "returnedSections"} =>
           \A s \in SectionNames \ LegacySections : sections[s] = <<>>

\* Strategy B has returned a model with a section that Strategy A cannot fill
C29_Witness ==
    /\ pc = "returnedSections"
    /\ sections.supplementary # <<>>
    /\ sections.glossary = <<>>
    /\ \E k \in 1..Len(NavEntries) : toLowerCase(NavEntries[k].label) = <<"glossary">>

====
